---- MODULE Spec2Model ----
(***************************************************************************)
(* Model of forage-figma's PluginBridge (packages/mcp-server bridge.ts):   *)
(* one WebSocket server, at most one plugin connection, a map of pending   *)
(* requests keyed by correlation id, one timer per request.                *)
(*                                                                         *)
(* Every handler of the class runs to completion on the single JavaScript  *)
(* thread, so each one is one atomic action here.  The peer (the Figma     *)
(* plugin) and the socket layer are the environment: they accept, deliver  *)
(* frames, fire timers and close connections in any order.                 *)
(*                                                                         *)
(* The second half models the plugin sandbox (packages/plugin code.ts):    *)
(* the command dispatcher, the node projector simplifyNode and the         *)
(* handlers built on it, and safeCall of the MCP server's tool layer.      *)
(* Spec runs the bridge alone; ToolSpec, ProjectorSpec, NavigatorSpec,     *)
(* DifferSpec, ScorerSpec, LinterSpec, InferrerSpec, AnnotatorSpec,        *)
(* FamilySpec and BareSpec run tool calls against documents drawn from     *)
(* bounded families, with the bridge variables as constructed.  Where a    *)
(* handler looks inside a text (a name it matches or splits, an annotation *)
(* it parses) the text is a sequence of characters or of JSON tokens.      *)
(***************************************************************************)
EXTENDS Integers, Sequences, FiniteSets, TLC

\* ---------------------------------------------------------------- bounds
MaxConn == 2   \* connections the server accepts in one run
MaxReq  == 2   \* send() calls that get past the connection check

Conns    == 1..MaxConn
Promises == 1..MaxReq

\* ------------------------------------------------------------- constants
REQUEST_TIMEOUT_MS == 10000

Methods == {"getPages"}

\* The payload a peer answers the command with id `id` with.
ResultOf(id) == "result:" \o id

NotConnectedMsg == "Not connected to Figma plugin. Is the Forage plugin running in Figma?"
DisconnectedMsg == "Figma plugin disconnected"

TimeoutMsg(method) == "Request timed out after 10s: " \o method

ErrorMsg(code, message) == "[" \o code \o "] " \o message

\* String(n) of a non-negative integer: its decimal digits.
Digit == <<"0", "1", "2", "3", "4", "5", "6", "7", "8", "9">>

RECURSIVE String(_)
String(n) == IF n < 10 THEN Digit[n + 1]
             ELSE String(n \div 10) \o Digit[(n % 10) + 1]

\* ---------------------------------------------------------------- frames
\* What JSON.parse(data.toString()) yields for an inbound frame.  parses =
\* FALSE stands for text that is not JSON (JSON.parse throws).  A parsed
\* ForageResponse carries an id and either a result or an error object.
GarbageFrame == [parses |-> FALSE, id |-> "{", hasError |-> FALSE,
                 code |-> "", message |-> "", result |-> ""]

ResultFrame(id, r) == [parses |-> TRUE, id |-> id, hasError |-> FALSE,
                       code |-> "", message |-> "", result |-> r]

ErrorFrame(id, c, m) == [parses |-> TRUE, id |-> id, hasError |-> TRUE,
                         code |-> c, message |-> m, result |-> ""]

\* Ids a peer may put in a frame: every id the bridge can assign within the
\* bounds, and one it never assigns.
FrameIds == {String(i) : i \in 1..MaxReq} \cup {"stray"}

Frames == {GarbageFrame}
          \cup {ResultFrame(id, ResultOf(id)) : id \in FrameIds}
          \cup {ErrorFrame(id, "NODE_NOT_FOUND", "Node not found") : id \in FrameIds}

\* ----------------------------------------------------------------- state
VARIABLES
    plugin,           \* this.plugin: 0 is null, else the connection
    readyState,       \* ws.readyState of every connection ("NONE": not accepted yet)
    peerDone,         \* connections whose peer has sent its close frame
    wssClosed,        \* this.wss.close() has been called
    nextId,           \* this.nextId
    pendingRequests,  \* this.pendingRequests: id string -> promise (its resolve/reject/timer)
    timers,           \* promises whose setTimeout is armed
    wire,             \* commands written by plugin.send, in send order: wire[p] is promise p's
    outcome,          \* state of the promise send() returned
    resolveCalls,     \* times resolve was called on a promise
    rejectCalls,      \* times reject was called on a promise
    removals,         \* times a promise's entry left the pending map
    event             \* the handler that ran last and its input

\* The plugin sandbox (packages/plugin code.ts) and the tool layer of the MCP
\* server (index.ts): one document, the tool calls the orchestrator makes,
\* and what each call has produced so far.
VARIABLES
    scene,            \* figma.currentPage: the raw node tree of the document
    script,           \* the tool calls the orchestrator makes, in order
    inbox,            \* the commands delivered to figma.ui.onmessage, in order
    served,           \* how many of them the onmessage handler has run for
    posted,           \* what figma.ui.postMessage was given, in order
    toolResult        \* per call: not made yet, pending under an id, or what safeCall returned

bridgeVars == <<plugin, readyState, peerDone, wssClosed, nextId, pendingRequests,
                timers, wire, outcome, resolveCalls, rejectCalls, removals, event>>

toolVars == <<scene, script, inbox, served, posted, toolResult>>

vars == <<plugin, readyState, peerDone, wssClosed, nextId, pendingRequests,
          timers, wire, outcome, resolveCalls, rejectCalls, removals, event,
          scene, script, inbox, served, posted, toolResult>>

\* type: the handler; arg: the id of the frame a message handler was given
\* (the text itself when it is not JSON); error: what a send() call threw.
Ev(type, arg, err) == [type |-> type, arg |-> arg, error |-> err]

Unsettled   == [state |-> "pending", value |-> ""]
NotCreated  == [state |-> "none", value |-> ""]
Resolved(v) == [state |-> "resolved", value |-> v]
Rejected(e) == [state |-> "rejected", value |-> e]

\* A promise keeps its first settlement; later resolve/reject calls are no-ops.
Settle(o, p, v) == IF o[p] = Unsettled THEN [o EXCEPT ![p] = v] ELSE o

Bump(f, S) == [x \in DOMAIN f |-> IF x \in S THEN f[x] + 1 ELSE f[x]]

\* Map operations on this.pendingRequests.
MapSet(m, k, v) == [x \in DOMAIN m \cup {k} |-> IF x = k THEN v ELSE m[x]]
MapDeleteNoop(m, k) == m

MapDelete(m, k) == [x \in DOMAIN m \ {k} |-> m[x]]
MapValues(m)    == {m[k] : k \in DOMAIN m}
EmptyMap        == [x \in {} |-> 0]

\* clearTimeout(timer)
ClearTimeoutNoop(ts, p) == ts

ClearTimeout(ts, p) == ts \ {p}

\* clearTimeout in a loop over the entries of the map
ClearTimeouts(ts, ps) == {t \in ts : \A p \in ps : t \in ClearTimeout(ts, p)}

ConnectedNullCheckOnly == plugin # 0

\* get connected(), and the check send() starts with
Connected == plugin # 0 /\ readyState[plugin] = "OPEN"

\* A document with one empty page.
EmptyPage == [id |-> "0:1", name |-> "Page 1", type |-> "PAGE", children |-> <<>>]

\* No tool call is made: the bridge is looked at on its own.
NoCalls ==
    /\ scene = EmptyPage
    /\ script = <<>>
    /\ inbox = <<>>
    /\ served = 0
    /\ posted = <<>>
    /\ toolResult = <<>>

BridgeInit ==
    /\ plugin = 0
    /\ readyState = [c \in Conns |-> "NONE"]
    /\ peerDone = {}
    /\ wssClosed = FALSE
    /\ nextId = 0
    /\ pendingRequests = EmptyMap
    /\ timers = {}
    /\ wire = <<>>
    /\ outcome = [p \in Promises |-> NotCreated]
    /\ resolveCalls = [p \in Promises |-> 0]
    /\ rejectCalls = [p \in Promises |-> 0]
    /\ removals = [p \in Promises |-> 0]
    /\ event = Ev("init", "", "")

Init == BridgeInit /\ NoCalls

\* ------------------------------------------------------------ operations
NextIdNoIncrement(n) == n

\* ++this.nextId
NextIdOf(n) == n + 1

\* handleConnection: "If there's already a plugin connected, close the old one".
\* ws.close() starts the closing handshake; the 'close' event comes later.
CloseOld(rs, pl) ==
    IF pl # 0 /\ rs[pl] = "OPEN" THEN [rs EXCEPT ![pl] = "CLOSING"] ELSE rs

\* wss.on("connection", ws => this.handleConnection(ws)); connections are
\* numbered in the order they arrive.
HandleConnection(c) ==
    /\ ~wssClosed
    /\ readyState[c] = "NONE"
    /\ \A d \in Conns : d < c => readyState[d] # "NONE"
    /\ readyState' = [CloseOld(readyState, plugin) EXCEPT ![c] = "OPEN"]
    /\ plugin' = c
    /\ event' = Ev("connection", "", "")
    /\ UNCHANGED <<peerDone, wssClosed, nextId, pendingRequests, timers, wire,
                   outcome, resolveCalls, rejectCalls, removals>>
    /\ UNCHANGED toolVars

\* The settlement a matched response gives its request.
ResponseOutcome(f) ==
    IF f.hasError THEN Rejected(ErrorMsg(f.code, f.message))
    ELSE Resolved(f.result)

\* Matching by arrival order: the oldest pending entry, whatever the frame says.
LookupKeyFifo(f) ==
    IF DOMAIN pendingRequests = {} THEN f.id
    ELSE CHOOSE k \in DOMAIN pendingRequests :
             \A j \in DOMAIN pendingRequests : pendingRequests[k] <= pendingRequests[j]

\* A frame with an unknown id given to the only pending request.
LookupKeyLenient(f) ==
    IF f.id \notin DOMAIN pendingRequests /\ Cardinality(DOMAIN pendingRequests) = 1
    THEN CHOOSE k \in DOMAIN pendingRequests : TRUE
    ELSE f.id

\* The key the message handler looks up: response.id.
LookupKey(f) == f.id

\* The body of the message handler for frame f: parse, look up, settle.
HandleResponse(f) ==
    /\ event' = Ev("message", f.id, "")
    /\ IF f.parses /\ LookupKey(f) \in DOMAIN pendingRequests
       THEN LET p == pendingRequests[LookupKey(f)] IN
            /\ timers' = ClearTimeout(timers, p)
            /\ pendingRequests' = MapDelete(pendingRequests, LookupKey(f))
            /\ removals' = Bump(removals, {p})
            /\ outcome' = Settle(outcome, p, ResponseOutcome(f))
            /\ resolveCalls' = Bump(resolveCalls, IF f.hasError THEN {} ELSE {p})
            /\ rejectCalls' = Bump(rejectCalls, IF f.hasError THEN {p} ELSE {})
       ELSE UNCHANGED <<pendingRequests, timers, outcome, resolveCalls,
                        rejectCalls, removals>>
    /\ UNCHANGED <<plugin, readyState, peerDone, wssClosed, nextId, wire>>

\* ws.on("message", ...) of connection c, for frame f.  A socket that is
\* closing on its own side still delivers frames until the peer's close frame.
OnMessage(c, f) ==
    /\ readyState[c] \in {"OPEN", "CLOSING"}
    /\ c \notin peerDone
    /\ HandleResponse(f)
    /\ UNCHANGED toolVars

PluginAfterCloseAlwaysNull(pl, c) == 0

\* The close handler's "if (this.plugin === ws) this.plugin = null".
PluginAfterClose(pl, c) == IF pl = c THEN 0 ELSE pl

ClosedEntriesNone(m, c) == {}

\* The entries the close handler of connection c rejects: its loop runs over
\* the whole map.
ClosedEntries(m, c) == DOMAIN m

\* ws.on("close", ...) of connection c.
OnClose(c) ==
    /\ readyState[c] \in {"OPEN", "CLOSING"}
    /\ readyState' = [readyState EXCEPT ![c] = "CLOSED"]
    /\ plugin' = PluginAfterClose(plugin, c)
    /\ LET ks == ClosedEntries(pendingRequests, c)
           ps == {pendingRequests[k] : k \in ks} IN
       /\ timers' = ClearTimeouts(timers, ps)
       /\ outcome' = [p \in Promises |->
                        IF p \in ps THEN Settle(outcome, p, Rejected(DisconnectedMsg))[p]
                        ELSE outcome[p]]
       /\ rejectCalls' = Bump(rejectCalls, ps)
       /\ removals' = Bump(removals, ps)
       /\ pendingRequests' = [k \in DOMAIN pendingRequests \ ks |-> pendingRequests[k]]
    /\ event' = Ev("close", "", "")
    /\ UNCHANGED <<peerDone, wssClosed, nextId, wire, resolveCalls>>
    /\ UNCHANGED toolVars

\* ws.on("error", ...) of connection c: the handler only logs.  The socket
\* layer has left OPEN when it emits 'error' and emits 'close' afterwards.
OnError(c) ==
    /\ readyState[c] \in {"OPEN", "CLOSING"}
    /\ readyState' = [readyState EXCEPT ![c] = "CLOSING"]
    /\ peerDone' = peerDone \cup {c}
    /\ event' = Ev("error", "", "")
    /\ UNCHANGED <<plugin, wssClosed, nextId, pendingRequests, timers, wire,
                   outcome, resolveCalls, rejectCalls, removals>>
    /\ UNCHANGED toolVars

\* The peer starts the closing handshake: readyState leaves OPEN before the
\* 'close' event is delivered.
PeerClosing(c) ==
    /\ readyState[c] = "OPEN"
    /\ readyState' = [readyState EXCEPT ![c] = "CLOSING"]
    /\ peerDone' = peerDone \cup {c}
    /\ event' = Ev("closing", "", "")
    /\ UNCHANGED <<plugin, wssClosed, nextId, pendingRequests, timers, wire,
                   outcome, resolveCalls, rejectCalls, removals>>
    /\ UNCHANGED toolVars

\* send(method, params).  Without a live connection it throws (the async
\* function's promise rejects) before anything else happens.
Send(m) ==
    IF ~Connected
    THEN /\ event' = Ev("send", "", NotConnectedMsg)
         /\ UNCHANGED <<plugin, readyState, peerDone, wssClosed, nextId,
                        pendingRequests, timers, wire, outcome, resolveCalls,
                        rejectCalls, removals>>
         /\ UNCHANGED toolVars
    ELSE /\ Len(wire) < MaxReq
         /\ LET p  == Len(wire) + 1
                id == String(NextIdOf(nextId)) IN
            /\ nextId' = NextIdOf(nextId)
            /\ timers' = timers \cup {p}
            /\ pendingRequests' = MapSet(pendingRequests, id, p)
            /\ wire' = Append(wire, [conn |-> plugin, id |-> id, method |-> m])
            /\ outcome' = [outcome EXCEPT ![p] = Unsettled]
            /\ event' = Ev("send", "", "")
         /\ UNCHANGED <<plugin, readyState, peerDone, wssClosed, resolveCalls,
                        rejectCalls, removals>>
         /\ UNCHANGED toolVars

\* The setTimeout callback of promise p.  All timers have the same delay
\* (REQUEST_TIMEOUT_MS), so they expire in the order they were armed.
Timeout(p) ==
    /\ p \in timers
    /\ \A q \in timers : p <= q
    /\ LET id == wire[p].id IN
       /\ pendingRequests' = MapDelete(pendingRequests, id)
       /\ removals' = Bump(removals, IF id \in DOMAIN pendingRequests
                                     THEN {pendingRequests[id]} ELSE {})
    /\ timers' = timers \ {p}
    /\ outcome' = Settle(outcome, p, Rejected(TimeoutMsg(wire[p].method)))
    /\ rejectCalls' = Bump(rejectCalls, {p})
    /\ event' = Ev("timeout", "", "")
    /\ UNCHANGED <<plugin, readyState, peerDone, wssClosed, nextId, wire,
                   resolveCalls>>
    /\ UNCHANGED toolVars

\* close(): clears every timer and the map, settles nothing, closes the
\* server.  Sockets already accepted are left to their own close events.
BridgeClose ==
    /\ ~wssClosed
    /\ wssClosed' = TRUE
    /\ timers' = ClearTimeouts(timers, MapValues(pendingRequests))
    /\ removals' = Bump(removals, MapValues(pendingRequests))
    /\ pendingRequests' = EmptyMap
    /\ event' = Ev("bridgeClose", "", "")
    /\ UNCHANGED <<plugin, readyState, peerDone, nextId, wire, outcome,
                   resolveCalls, rejectCalls>>
    /\ UNCHANGED toolVars

Next ==
    \/ \E c \in Conns : HandleConnection(c)
    \/ \E c \in Conns, f \in Frames : OnMessage(c, f)
    \/ \E c \in Conns : OnClose(c)
    \/ \E c \in Conns : OnError(c)
    \/ \E c \in Conns : PeerClosing(c)
    \/ \E m \in Methods : Send(m)
    \/ \E p \in Promises : Timeout(p)
    \/ BridgeClose

Spec == Init /\ [][Next]_vars

\* An armed timer fires: the event loop runs every due setTimeout callback.
FairSpec == Spec /\ \A p \in Promises : WF_vars(Timeout(p))

\* ============================================================ the sandbox
\* Raw nodes are records that hold exactly the properties the Figma node has
\* ("x" in node is "x" \in DOMAIN node).  width and height are in tenths of a
\* pixel and opacity in hundredths, so that rounding and "!== 1" have
\* something to do; every other number is a whole number.  Nodes of the model
\* carry no paints, effects, variant or component properties, and text nodes
\* have mixed fontName, lineHeight and letterSpacing: the projector emits
\* nothing for them.

\* figma.mixed, where a number is expected
Mixed == -2
\* null, where a number or a string is expected
Null == -1
NullId == "null"
\* undefined as the value of a key that is present
Undefined == "undefined"

\* An object with no keys.
None == [x \in {} |-> 0]

Has(node, key) == key \in DOMAIN node

Children(node) == IF Has(node, "children") THEN node.children ELSE <<>>

\* Math.round of a non-negative length given in tenths
MathRound(tenths) == (tenths + 5) \div 10

\* ---------------------------------------------------------- simplifyNode
VisibleField(node) == IF ~node.visible THEN "visible" :> FALSE ELSE None

SizeFields(node) ==
    (IF Has(node, "width") THEN "width" :> MathRound(node.width) ELSE None)
    @@ (IF Has(node, "height") THEN "height" :> MathRound(node.height) ELSE None)

LayoutFieldsAnyMode(node) ==
    IF Has(node, "layoutMode")
    THEN [layoutMode |-> node.layoutMode,
          primaryAxisAlignItems |-> node.primaryAxisAlignItems,
          counterAxisAlignItems |-> node.counterAxisAlignItems,
          paddingLeft |-> node.paddingLeft,
          paddingRight |-> node.paddingRight,
          paddingTop |-> node.paddingTop,
          paddingBottom |-> node.paddingBottom,
          itemSpacing |-> node.itemSpacing]
    ELSE None

\* The auto-layout block: everything hangs on layoutMode !== "NONE".
LayoutFields(node) ==
    IF Has(node, "layoutMode") /\ node.layoutMode # "NONE"
    THEN [layoutMode |-> node.layoutMode,
          primaryAxisAlignItems |-> node.primaryAxisAlignItems,
          counterAxisAlignItems |-> node.counterAxisAlignItems,
          paddingLeft |-> node.paddingLeft,
          paddingRight |-> node.paddingRight,
          paddingTop |-> node.paddingTop,
          paddingBottom |-> node.paddingBottom,
          itemSpacing |-> node.itemSpacing]
         @@ (IF Has(node, "counterAxisSpacing") /\ node.counterAxisSpacing # Null
             THEN "counterAxisSpacing" :> node.counterAxisSpacing ELSE None)
    ELSE None

LayoutChildFields(node) ==
    IF Has(node, "layoutAlign")
    THEN (IF node.layoutAlign # "INHERIT" THEN "layoutAlign" :> node.layoutAlign ELSE None)
         @@ (IF node.layoutGrow # 0 THEN "layoutGrow" :> node.layoutGrow ELSE None)
    ELSE None

\* node.mainComponent?.id
MainComponentId(node) ==
    IF node.mainComponent = NullId THEN Undefined ELSE node.mainComponent

ComponentFields(node) ==
    (IF node.type = "COMPONENT" THEN "isComponent" :> TRUE ELSE None)
    @@ (IF node.type = "COMPONENT_SET" THEN "isComponentSet" :> TRUE ELSE None)
    @@ (IF node.type = "INSTANCE"
        THEN [isInstance |-> TRUE, mainComponentId |-> MainComponentId(node)]
        ELSE None)

OpacityField(node) ==
    IF Has(node, "opacity") /\ node.opacity # 100
    THEN "opacity" :> node.opacity ELSE None

\* `${topLeft} ${topRight} ${bottomRight} ${bottomLeft}`
BorderRadius(node) ==
    String(node.topLeftRadius) \o " " \o String(node.topRightRadius) \o " "
    \o String(node.bottomRightRadius) \o " " \o String(node.bottomLeftRadius)

CornerFields(node) ==
    IF ~Has(node, "cornerRadius") THEN None
    ELSE IF node.cornerRadius # Mixed /\ node.cornerRadius > 0
         THEN "cornerRadius" :> node.cornerRadius
    ELSE IF node.cornerRadius = Mixed
         THEN "borderRadius" :> BorderRadius(node)
    ELSE None

TextFields(node) ==
    IF node.type = "TEXT"
    THEN ("textContent" :> node.characters)
         @@ (IF node.fontSize # Mixed THEN "fontSize" :> node.fontSize ELSE None)
         @@ (IF node.fontWeight # Mixed THEN "fontWeight" :> node.fontWeight ELSE None)
         @@ [textAlignHorizontal |-> node.textAlignHorizontal,
             textAlignVertical |-> node.textAlignVertical]
    ELSE None

RECURSIVE SimplifyNode(_, _)

ChildFieldsWholeSubtree(node, includeChildren) ==
    IF Has(node, "children")
    THEN ("childCount" :> Len(node.children))
         @@ (IF includeChildren
             THEN "children" :> [i \in 1..Len(node.children) |->
                                    SimplifyNode(node.children[i], includeChildren)]
             ELSE None)
    ELSE None

\* childCount, and the children's projections when they are asked for
ChildFields(node, includeChildren) ==
    IF Has(node, "children")
    THEN ("childCount" :> Len(node.children))
         @@ (IF includeChildren
             THEN "children" :> [i \in 1..Len(node.children) |->
                                    SimplifyNode(node.children[i], FALSE)]
             ELSE None)
    ELSE None

\* simplifyNode(node, includeChildren = false)
SimplifyNode(node, includeChildren) ==
    [id |-> node.id, name |-> node.name, type |-> node.type]
    @@ VisibleField(node)
    @@ SizeFields(node)
    @@ ChildFields(node, includeChildren)
    @@ LayoutFields(node)
    @@ LayoutChildFields(node)
    @@ ComponentFields(node)
    @@ OpacityField(node)
    @@ CornerFields(node)
    @@ TextFields(node)

\* -------------------------------------------------------- JSON.stringify
\* The keys of a projection in the order simplifyNode assigns them.
KeyOrder == <<"id", "name", "type", "visible", "width", "height", "childCount",
              "children", "layoutMode", "primaryAxisAlignItems",
              "counterAxisAlignItems", "paddingLeft", "paddingRight",
              "paddingTop", "paddingBottom", "itemSpacing", "counterAxisSpacing",
              "layoutAlign", "layoutGrow", "isComponent", "isComponentSet",
              "isInstance", "mainComponentId", "opacity", "cornerRadius",
              "borderRadius", "textContent", "fontSize", "fontWeight",
              "textAlignHorizontal", "textAlignVertical">>

BooleanKeys == {"visible", "isComponent", "isComponentSet", "isInstance"}

StringKeys == {"id", "name", "type", "layoutMode", "primaryAxisAlignItems",
               "counterAxisAlignItems", "layoutAlign", "mainComponentId",
               "borderRadius", "textContent", "textAlignHorizontal",
               "textAlignVertical"}

\* A string literal; the strings of the model need no escaping.
Quote(str) == "\"" \o str \o "\""

\* A number given in hundredths: 100 is "1", 50 is "0.5", 25 is "0.25".
Decimal(h) ==
    String(h \div 100)
    \o (IF h % 100 = 0 THEN ""
        ELSE IF h % 10 = 0 THEN "." \o Digit[((h % 100) \div 10) + 1]
        ELSE "." \o Digit[((h % 100) \div 10) + 1] \o Digit[(h % 10) + 1])

RECURSIVE Join(_, _)
Join(strs, sep) ==
    IF strs = <<>> THEN ""
    ELSE IF Len(strs) = 1 THEN strs[1]
    ELSE strs[1] \o sep \o Join(Tail(strs), sep)

RECURSIVE StringifyObject(_)

\* JSON.stringify of the value a projection holds under `key`.
StringifyValue(key, v) ==
    IF key = "children"
        THEN "[" \o Join([i \in 1..Len(v) |-> StringifyObject(v[i])], ",") \o "]"
    ELSE IF key \in BooleanKeys THEN (IF v THEN "true" ELSE "false")
    ELSE IF key \in StringKeys THEN (IF v = Undefined THEN Undefined ELSE Quote(v))
    ELSE IF key = "opacity" THEN Decimal(v)
    ELSE String(v)

\* JSON.stringify of a projection: its keys in insertion order; a key whose
\* value is undefined is left out.
StringifyObject(obj) ==
    LET keys == SelectSeq(KeyOrder, LAMBDA k : k \in DOMAIN obj
                                               /\ StringifyValue(k, obj[k]) # Undefined)
    IN "{" \o Join([i \in 1..Len(keys) |->
                       Quote(keys[i]) \o ":" \o StringifyValue(keys[i], obj[keys[i]])], ",")
           \o "}"

\* JSON.stringify(obj[key]): undefined for a key the object does not have.
Stringify(obj, key) ==
    IF key \in DOMAIN obj THEN StringifyValue(key, obj[key]) ELSE Undefined

\* --------------------------------------------------------------- handlers
\* What a handler call ends in: a returned value, a thrown plain object
\* { code, message }, or a thrown Error (which has no code).
Return(v) == [threw |-> FALSE, value |-> v]
ThrowObject(code, message) ==
    [threw |-> TRUE, isError |-> FALSE, code |-> code, message |-> message]
ThrowError(message) ==
    [threw |-> TRUE, isError |-> TRUE, code |-> Undefined, message |-> message]

\* Every node below `node`, in document order.
RECURSIVE Descendants(_)
Descendants(node) ==
    LET RECURSIVE Walk(_)
        Walk(kids) == IF kids = <<>> THEN <<>>
                      ELSE <<Head(kids)>> \o Descendants(Head(kids)) \o Walk(Tail(kids))
    IN Walk(Children(node))

\* figma.getNodeByIdAsync(nodeId): the node, or no node (null).
GetNodeById(doc, nodeId) ==
    SelectSeq(<<doc>> \o Descendants(doc), LAMBDA n : n.id = nodeId)

\* findNodeById: null, the document and pages are "not found".
FindNodeById(doc, nodeId) ==
    LET hit == GetNodeById(doc, nodeId) IN
    IF hit = <<>> \/ hit[1].type \in {"DOCUMENT", "PAGE"}
    THEN ThrowObject("NODE_NOT_FOUND", "Node not found: " \o nodeId)
    ELSE Return(hit[1])

\* await page.loadAsync(): a page may carry what the host call rejects with.
LoadAsync(page) ==
    IF Has(page, "loadAsync") /\ page.loadAsync.rejects
    THEN ThrowError(page.loadAsync.message) ELSE Return(page)

\* handleGetPages: the document of the model has the one page.
HandleGetPages(doc) ==
    Return(<<[id |-> doc.id, name |-> doc.name, childCount |-> Len(doc.children)]>>)

DefaultDepth == 1

DepthStepKeep(d) == d

\* The depth a child is walked with: d - 1.
DepthStep(d) == d - 1

RECURSIVE GetChildrenAtDepth(_, _)
GetChildrenAtDepth(n, d) ==
    LET simplified == SimplifyNode(n, FALSE) IN
    IF d > 0 /\ Has(n, "children")
    THEN ("children" :> [i \in 1..Len(n.children) |->
                            GetChildrenAtDepth(n.children[i], DepthStep(d))])
         @@ simplified
    ELSE simplified

HandleGetChildren(doc, params) ==
    LET found == FindNodeById(doc, params.nodeId) IN
    IF found.threw THEN found
    ELSE LET node  == found.value
             depth == IF Has(params, "depth") THEN params.depth ELSE DefaultDepth
         IN IF ~Has(node, "children")
            THEN Return([id |-> node.id, name |-> node.name, type |-> node.type,
                         children |-> <<>>])
            ELSE Return([id |-> node.id, name |-> node.name, type |-> node.type,
                         children |-> [i \in 1..Len(node.children) |->
                                          GetChildrenAtDepth(node.children[i],
                                                             DepthStep(depth))]])

\* handleGetNodeDetail.  Nodes of the model have no bound variables and no
\* reactions.  node.getCSSAsync is what the host call ends in.
HandleGetNodeDetail(doc, params) ==
    LET found == FindNodeById(doc, params.nodeId) IN
    IF found.threw THEN found
    ELSE LET node == found.value IN
         Return((IF Has(params, "includeCss") /\ params.includeCss
                    /\ Has(node, "getCSSAsync") /\ ~node.getCSSAsync.rejects
                 THEN "css" :> node.getCSSAsync.css ELSE None)
                @@ SimplifyNode(node, TRUE))

\* new Set([...Object.keys(a), ...Object.keys(b)])
AllKeys(a, b) == DOMAIN a \cup DOMAIN b

\* The value a difference entry shows for a side: obj[key], undefined if absent.
ValueOf(obj, key) == IF key \in DOMAIN obj THEN obj[key] ELSE Undefined

DifferingKeysOfFirst(a, b) ==
    {key \in DOMAIN a : Stringify(a, key) # Stringify(b, key)}

\* The keys handleCompareVariants reports.
DifferingKeys(a, b) ==
    {key \in AllKeys(a, b) : Stringify(a, key) # Stringify(b, key)}

HandleCompareVariants(doc, params) ==
    LET foundA == FindNodeById(doc, params.nodeIdA)
        foundB == FindNodeById(doc, params.nodeIdB) IN
    IF foundA.threw THEN foundA
    ELSE IF foundB.threw THEN foundB
    ELSE LET simplifiedA == SimplifyNode(foundA.value, TRUE)
             simplifiedB == SimplifyNode(foundB.value, TRUE)
             differences == [key \in DifferingKeys(simplifiedA, simplifiedB) |->
                                [a |-> ValueOf(simplifiedA, key),
                                 b |-> ValueOf(simplifiedB, key)]]
         IN Return([nodeA |-> [id |-> foundA.value.id, name |-> foundA.value.name],
                    nodeB |-> [id |-> foundB.value.id, name |-> foundB.value.name],
                    differences |-> differences,
                    differenceCount |-> Cardinality(DOMAIN differences)])

SkipAsSpecified == {"id", "name", "type", "childCount"}

SkipWithType == {"id", "name", "type", "children"}

\* const skip = new Set(["id", "name", "children"])
Skip == {"id", "name", "children"}

\* computeSimilarity: matches / total as a fraction, 0 when nothing is counted.
ComputeSimilarity(a, b) ==
    LET counted == AllKeys(a, b) \ Skip
        matches == Cardinality({key \in counted : Stringify(a, key) = Stringify(b, key)})
        total   == Cardinality(counted)
    IN IF total > 0 THEN [num |-> matches, den |-> total] ELSE [num |-> 0, den |-> 1]

DefaultThreshold == 70
MaxSimilar == 20

\* similarity >= threshold, the threshold in hundredths
AtLeast(sim, threshold) == sim.num * 100 >= threshold * sim.den

\* Math.round(similarity * 100) / 100, in hundredths
RoundedSimilarity(sim) == (200 * sim.num + sim.den) \div (2 * sim.den)

\* page.findAll(n => n.type === targetNode.type && n.id !== targetNode.id)
Candidates(doc, targetNode) ==
    SelectSeq(Descendants(doc),
              LAMBDA n : n.type = targetNode.type /\ n.id # targetNode.id)

SortUnsorted(similar) == similar

\* similar.sort((a, b) => b.similarity - a.similarity): stable, descending
RECURSIVE Sort(_)
Sort(similar) ==
    IF Len(similar) <= 1 THEN similar
    ELSE LET last   == similar[Len(similar)]
             sorted == Sort(SubSeq(similar, 1, Len(similar) - 1))
         IN SelectSeq(sorted, LAMBDA e : e.similarity >= last.similarity)
            \o <<last>>
            \o SelectSeq(sorted, LAMBDA e : e.similarity < last.similarity)

\* similar.slice(0, 20)
Slice(similar) == SubSeq(similar, 1, IF Len(similar) < MaxSimilar
                                     THEN Len(similar) ELSE MaxSimilar)

ThresholdIgnored(params) == 0

\* params.threshold ?? 0.7
ThresholdOf(params) ==
    IF Has(params, "threshold") THEN params.threshold ELSE DefaultThreshold

HandleFindSimilar(doc, params) ==
    LET found == FindNodeById(doc, params.nodeId) IN
    IF found.threw THEN found
    ELSE IF LoadAsync(doc).threw THEN LoadAsync(doc)
    ELSE LET targetNode == found.value
             target     == SimplifyNode(targetNode, FALSE)
             candidates == Candidates(doc, targetNode)
             scored     == [i \in 1..Len(candidates) |->
                              LET simplified == SimplifyNode(candidates[i], FALSE) IN
                              [node |-> simplified,
                               raw |-> ComputeSimilarity(target, simplified)]]
             kept       == SelectSeq(scored,
                                     LAMBDA e : AtLeast(e.raw, ThresholdOf(params)))
             similar    == Sort([i \in 1..Len(kept) |->
                                   [node |-> kept[i].node,
                                    similarity |-> RoundedSimilarity(kept[i].raw)]])
         IN Return([target |-> [id |-> targetNode.id, name |-> targetNode.name,
                                type |-> targetNode.type],
                    similar |-> Slice(similar),
                    total |-> Len(similar)])

\* -------------------------------------------------------------------- text
\* Where a handler looks inside a name or a payload, the text is the
\* sequence of its characters, each a one-character string.
\* String.prototype.toLowerCase, one character / the whole text
LowerChar(c) ==
    LET Upper == <<"A", "B", "C", "D", "E", "F", "G", "H", "I", "J", "K", "L", "M",
                   "N", "O", "P", "Q", "R", "S", "T", "U", "V", "W", "X", "Y", "Z">>
        Lower == <<"a", "b", "c", "d", "e", "f", "g", "h", "i", "j", "k", "l", "m",
                   "n", "o", "p", "q", "r", "s", "t", "u", "v", "w", "x", "y", "z">>
    IN IF \E i \in DOMAIN Upper : Upper[i] = c
       THEN Lower[CHOOSE i \in DOMAIN Upper : Upper[i] = c] ELSE c
ToLowerCase(text) == [i \in DOMAIN text |-> LowerChar(text[i])]

\* The string a text spells.
RECURSIVE Str(_)
Str(text) == IF text = <<>> THEN "" ELSE Head(text) \o Str(Tail(text))

\* The decimal digits of a natural number, as text.
RECURSIVE DigitChars(_)
DigitChars(n) == IF n < 10 THEN <<Digit[n + 1]>>
                 ELSE DigitChars(n \div 10) \o <<Digit[(n % 10) + 1]>>

\* \s and \d of a regular expression
WhiteSpace == {" ", "\t", "\n", "\r", "\f"}
Digits     == {Digit[i] : i \in DOMAIN Digit}

\* ---------------------------------------------------------- handleLintNaming
\* findPageById: null and anything that is not a page are "not found".
FindPageById(doc, pageId) ==
    LET hit == GetNodeById(doc, pageId) IN
    IF hit = <<>> \/ hit[1].type # "PAGE"
    THEN ThrowObject("PAGE_NOT_FOUND", "Page not found: " \o pageId)
    ELSE Return(hit[1])

\* The keywords of genericPatterns, in their order.
GenericPatterns ==
    << <<"F", "r", "a", "m", "e">>,
       <<"G", "r", "o", "u", "p">>,
       <<"R", "e", "c", "t", "a", "n", "g", "l", "e">>,
       <<"E", "l", "l", "i", "p", "s", "e">>,
       <<"L", "i", "n", "e">>,
       <<"V", "e", "c", "t", "o", "r">>,
       <<"T", "e", "x", "t">>,
       <<"I", "m", "a", "g", "e">>,
       <<"C", "o", "m", "p", "o", "n", "e", "n", "t">>,
       <<"I", "n", "s", "t", "a", "n", "c", "e">> >>

TestPatternNoEnd(keyword, name) ==
    LET n == Len(name)
        k == Len(keyword)
    IN /\ n > k
       /\ \A i \in 1..k : LowerChar(name[i]) = LowerChar(keyword[i])
       /\ \E m \in (k + 1)..(n - 1) :
             /\ \A i \in (k + 1)..m : name[i] \in WhiteSpace
             /\ name[m + 1] \in Digits

\* /^keyword\s+\d+$/i.test(name)
TestPattern(keyword, name) ==
    LET n == Len(name)
        k == Len(keyword)
    IN /\ n > k
       /\ \A i \in 1..k : LowerChar(name[i]) = LowerChar(keyword[i])
       /\ \E m \in (k + 1)..(n - 1) :
             /\ \A i \in (k + 1)..m : name[i] \in WhiteSpace
             /\ \A i \in (m + 1)..n : name[i] \in Digits

\* node.type.toLowerCase().replace("_", " "), for the node types of the model
TypeLower(type) ==
    CASE type = "FRAME"         -> "frame"
      [] type = "GROUP"         -> "group"
      [] type = "TEXT"          -> "text"
      [] type = "RECTANGLE"     -> "rectangle"
      [] type = "COMPONENT"     -> "component"
      [] type = "COMPONENT_SET" -> "component set"
      [] type = "INSTANCE"      -> "instance"

\* The inner loop over the patterns: an issue at the first pattern that
\* matches, then break.
RECURSIVE IssuesOf(_, _)
IssuesOf(node, p) ==
    IF p > Len(GenericPatterns) THEN <<>>
    ELSE IF TestPattern(GenericPatterns[p], node.name)
         THEN <<[nodeId |-> node.id, name |-> node.name, type |-> node.type,
                 issue |-> "generic-name",
                 suggestion |-> "Rename \"" \o Str(node.name)
                    \o "\" to describe its purpose (e.g., \"hero-section\", \"nav-item\", \"cta-button\" instead of generic "
                    \o TypeLower(node.type) \o " names)"]>>
         ELSE IssuesOf(node, p + 1)

RECURSIVE LintAll(_)
LintAll(allNodes) ==
    IF allNodes = <<>> THEN <<>>
    ELSE IssuesOf(Head(allNodes), 1) \o LintAll(Tail(allNodes))

\* handleLintNaming: figma.currentPage is the page of the model.
HandleLintNaming(doc, params) ==
    LET found == IF Has(params, "pageId") /\ params.pageId # "" THEN FindPageById(doc, params.pageId)
                 ELSE Return(doc) IN
    IF found.threw THEN found
    ELSE IF LoadAsync(found.value).threw THEN LoadAsync(found.value)
    ELSE LET page     == found.value
             allNodes == Descendants(page)
             issues   == LintAll(allNodes)
         IN Return([pageId |-> page.id, pageName |-> page.name,
                    issues |-> issues,
                    issueCount |-> Len(issues),
                    totalNodes |-> Len(allNodes)])

\* --------------------------------------------------------------- JSON.parse
\* A JSON text is the sequence of its tokens: a punctuation mark, a string
\* literal (with its text), a number, one of null / true / false, or a bare
\* word, which no JSON grammar rule accepts.
Mark(k)       == [k |-> k]
StrToken(t)   == [k |-> "str", text |-> t]
LitToken(l)   == [k |-> "lit", lit |-> l]
WordToken     == [k |-> "word"]

\* The values JSON.parse builds.
JNull       == [kind |-> "null"]
JStr(t)     == [kind |-> "string", str |-> t]
JArr(items) == [kind |-> "array", items |-> items]
JObj(f)     == [kind |-> "object", fields |-> f]

Parsed(v, next) == [ok |-> TRUE, value |-> v, next |-> next]
NoParse         == [ok |-> FALSE]

RECURSIVE ParseValue(_, _)
RECURSIVE ParseItems(_, _, _)
RECURSIVE ParseMembers(_, _, _)

\* value at position i
ParseValue(toks, i) ==
    IF i > Len(toks) THEN NoParse
    ELSE LET tok == toks[i] IN
         CASE tok.k = "str" -> Parsed(JStr(tok.text), i + 1)
           [] tok.k = "num" -> Parsed([kind |-> "number", num |-> tok.num], i + 1)
           [] tok.k = "lit" ->
                Parsed(IF tok.lit = "null" THEN JNull
                       ELSE [kind |-> "bool", bool |-> (tok.lit = "true")], i + 1)
           [] tok.k = "[" ->
                IF i + 1 <= Len(toks) /\ toks[i + 1].k = "]"
                THEN Parsed(JArr(<<>>), i + 2)
                ELSE ParseItems(toks, i + 1, <<>>)
           [] tok.k = "{" ->
                IF i + 1 <= Len(toks) /\ toks[i + 1].k = "}"
                THEN Parsed(JObj(EmptyMap), i + 2)
                ELSE ParseMembers(toks, i + 1, EmptyMap)
           [] OTHER -> NoParse

\* the elements of an array from position i on, acc the ones read so far
ParseItems(toks, i, acc) ==
    LET v == ParseValue(toks, i) IN
    IF ~v.ok \/ v.next > Len(toks) THEN NoParse
    ELSE CASE toks[v.next].k = "]" -> Parsed(JArr(Append(acc, v.value)), v.next + 1)
           [] toks[v.next].k = "," -> ParseItems(toks, v.next + 1, Append(acc, v.value))
           [] OTHER -> NoParse

\* the members of an object from position i on; a repeated key keeps its
\* last value
ParseMembers(toks, i, acc) ==
    IF i + 1 > Len(toks) \/ toks[i].k # "str" \/ toks[i + 1].k # ":" THEN NoParse
    ELSE LET v == ParseValue(toks, i + 2) IN
         IF ~v.ok \/ v.next > Len(toks) THEN NoParse
         ELSE LET fields == MapSet(acc, Str(toks[i].text), v.value) IN
              CASE toks[v.next].k = "}" -> Parsed(JObj(fields), v.next + 1)
                [] toks[v.next].k = "," -> ParseMembers(toks, v.next + 1, fields)
                [] OTHER -> NoParse

\* JSON.parse(text): the value, or a SyntaxError
JSONParse(text) ==
    LET r == ParseValue(text, 1) IN
    IF r.ok /\ r.next = Len(text) + 1 THEN Return(r.value)
    ELSE ThrowError("Unexpected token in JSON")

\* obj.key for a parsed value: undefined unless obj is an object that has
\* the key.  (Reading a property of null throws; callers look at that first.)
Prop(v, key) ==
    IF v.kind = "object" /\ key \in DOMAIN v.fields THEN v.fields[key]
    ELSE [kind |-> "undefined"]

\* if (v)
Truthy(v) ==
    CASE v.kind \in {"undefined", "null"} -> FALSE
      [] v.kind = "bool"   -> v.bool
      [] v.kind = "number" -> v.num # 0
      [] v.kind = "string" -> v.str # <<>>
      [] OTHER -> TRUE

\* for (const s of v), [...v]: arrays and strings can be iterated, a string
\* by its characters
Iterable(v) == v.kind \in {"array", "string"}
Iterate(v)  == IF v.kind = "array" THEN v.items
               ELSE [i \in DOMAIN v.str |-> JStr(<<v.str[i]>>)]

\* Array.prototype.includes: primitives by value, objects by reference (a
\* freshly parsed object is no element of the array yet)
Includes(arr, v) ==
    /\ v.kind \in {"string", "number", "bool", "null"}
    /\ \E i \in DOMAIN arr : arr[i].kind = v.kind /\ arr[i] = v

\* -------------------------------------------------------- handleInferStates
\* text.split(sep)
RECURSIVE Split(_, _)
Split(text, sep) ==
    LET hits == {i \in 1..(Len(text) - Len(sep) + 1) :
                    SubSeq(text, i, i + Len(sep) - 1) = sep} IN
    IF hits = {} THEN <<text>>
    ELSE LET i == CHOOSE i \in hits : \A j \in hits : i <= j IN
         <<SubSeq(text, 1, i - 1)>> \o Split(SubSeq(text, i + Len(sep), Len(text)), sep)

\* text.trim()
RECURSIVE Trim(_)
Trim(text) ==
    IF text = <<>> THEN text
    ELSE IF Head(text) \in WhiteSpace THEN Trim(Tail(text))
    ELSE IF text[Len(text)] \in WhiteSpace THEN Trim(SubSeq(text, 1, Len(text) - 1))
    ELSE text

\* if (!states.includes(s)) states.push(s)
AddState(states, s) == IF Includes(states, s) THEN states ELSE Append(states, s)

RECURSIVE AddStates(_, _)
AddStates(states, more) ==
    IF more = <<>> THEN states
    ELSE AddStates(AddState(states, Head(more)), Tail(more))

\* The states one variant name adds: of each ", "-separated pair the part
\* after the first "=", trimmed, when there is one and it is not empty.
RECURSIVE AddPairs(_, _)
AddPairs(states, pairs) ==
    IF pairs = <<>> THEN states
    ELSE LET parts == Split(Head(pairs), <<"=">>) IN
         IF Len(parts) >= 2 /\ parts[2] # <<>>
         THEN AddPairs(AddState(states, JStr(Trim(parts[2]))), Tail(pairs))
         ELSE AddPairs(states, Tail(pairs))

RECURSIVE AddVariants(_, _)
AddVariants(states, variants) ==
    IF variants = <<>> THEN states
    ELSE IF Head(variants).type = "COMPONENT"
         THEN AddVariants(AddPairs(states, Split(Head(variants).name, <<",", " ">>)),
                          Tail(variants))
         ELSE AddVariants(states, Tail(variants))

DefaultText  == <<"D", "e", "f", "a", "u", "l", "t">>
HoverText    == <<"H", "o", "v", "e", "r">>
ActiveText   == <<"A", "c", "t", "i", "v", "e">>
PressedText  == <<"P", "r", "e", "s", "s", "e", "d">>
FocusText    == <<"F", "o", "c", "u", "s">>
DisabledText == <<"D", "i", "s", "a", "b", "l", "e", "d">>

InteractionStates ==
    <<DefaultText, HoverText, ActiveText, PressedText, FocusText, DisabledText>>

\* states.filter(s => interactionStates.some(is => s.toLowerCase() === is.toLowerCase()))
FoundInteraction(states) ==
    SelectSeq(states, LAMBDA s : \E i \in DOMAIN InteractionStates :
                                    ToLowerCase(s.str) = ToLowerCase(InteractionStates[i]))

\* foundInteraction.find(s => s.toLowerCase() === word), as a condition: an
\* empty string found counts as nothing found
Finds(found, word) ==
    \E i \in DOMAIN found : ToLowerCase(found[i].str) = ToLowerCase(word)

\* { from, to, trigger }
Transition(from, to, trigger) ==
    JObj([from |-> JStr(from), to |-> JStr(to), trigger |-> JStr(trigger)])

HoverPairNever(found) == <<>>

HoverPair(found) ==
    IF Finds(found, DefaultText) /\ Finds(found, HoverText)
    THEN <<Transition(DefaultText, HoverText,
                      <<"O", "N", "_", "H", "O", "V", "E", "R">>),
           Transition(HoverText, DefaultText,
                      <<"M", "O", "U", "S", "E", "_", "L", "E", "A", "V", "E">>)>>
    ELSE <<>>

ActivePair(found) ==
    IF Finds(found, HoverText) /\ (Finds(found, ActiveText) \/ Finds(found, PressedText))
    THEN <<Transition(HoverText, ActiveText,
                      <<"O", "N", "_", "C", "L", "I", "C", "K">>),
           Transition(ActiveText, HoverText,
                      <<"M", "O", "U", "S", "E", "_", "U", "P">>)>>
    ELSE <<>>

FocusPair(found) ==
    IF Finds(found, FocusText)
    THEN <<Transition(DefaultText, FocusText,
                      <<"O", "N", "_", "F", "O", "C", "U", "S">>),
           Transition(FocusText, DefaultText,
                      <<"O", "N", "_", "B", "L", "U", "R">>)>>
    ELSE <<>>

\* Infer transitions from state names
NamedTransitions(states) ==
    LET found == FoundInteraction(states) IN
    IF Len(found) > 1 THEN HoverPair(found) \o ActivePair(found) \o FocusPair(found)
    ELSE <<>>

\* String(action.destinationId)
StringOf(v) == IF v.kind = "null" THEN <<"n", "u", "l", "l">> ELSE v.str

\* The transitions of one reaction: one for each action, when the reaction
\* has a trigger and actions.
ReactionTransitions(node, reaction) ==
    IF Has(reaction, "trigger") /\ Has(reaction, "actions")
    THEN [i \in DOMAIN reaction.actions |->
            LET action == reaction.actions[i] IN
            JObj([from |-> JStr(node.name),
                  to |-> JStr(IF Has(action, "destinationId")
                              THEN StringOf(action.destinationId)
                              ELSE <<"u", "n", "k", "n", "o", "w", "n">>),
                  trigger |-> JStr(reaction.trigger.type),
                  action |-> JStr(action.type)])]
    ELSE <<>>

RECURSIVE AllReactionTransitions(_, _)
AllReactionTransitions(node, reactions) ==
    IF reactions = <<>> THEN <<>>
    ELSE ReactionTransitions(node, Head(reactions))
         \o AllReactionTransitions(node, Tail(reactions))

\* node.getSharedPluginData("forage", "state-rules"): the empty string when
\* nothing is stored.
GetSharedPluginData(node) ==
    IF Has(node, "sharedPluginData") THEN node.sharedPluginData ELSE <<>>

\* The running lists of handleInferStates after a source has been read.
Inferred(states, transitions, sources) ==
    [states |-> states, transitions |-> transitions, sources |-> sources]

\* Source 1: variant naming patterns
FromVariantNames(node, sofar) ==
    IF node.type = "COMPONENT_SET"
    THEN LET states == AddVariants(sofar.states, node.children) IN
         Inferred(states, sofar.transitions \o NamedTransitions(states),
                  Append(sofar.sources, "variant-names"))
    ELSE sofar

\* Source 2: prototype reactions
FromReactions(node, sofar) ==
    IF Has(node, "reactions") /\ Len(node.reactions) > 0
    THEN Inferred(sofar.states,
                  sofar.transitions \o AllReactionTransitions(node, node.reactions),
                  Append(sofar.sources, "prototype-reactions"))
    ELSE sofar

\* Source 3: designer annotations.  The source is listed as soon as
\* something is stored; whatever throws after that (the parse, reading a
\* property of null, iterating what cannot be iterated) ends the block with
\* the lists as they are by then.
FromAnnotation(node, sofar) ==
    LET annotation == GetSharedPluginData(node) IN
    IF annotation = <<>> THEN sofar
    ELSE LET listed == Inferred(sofar.states, sofar.transitions,
                                Append(sofar.sources, "annotations"))
             parsed == JSONParse(annotation)
         IN IF parsed.threw \/ parsed.value.kind = "null" THEN listed
            ELSE LET states      == Prop(parsed.value, "states")
                     transitions == Prop(parsed.value, "transitions")
                 IN IF Truthy(states) /\ ~Iterable(states) THEN listed
                    ELSE LET unioned == IF Truthy(states)
                                        THEN AddStates(sofar.states, Iterate(states))
                                        ELSE sofar.states
                         IN IF Truthy(transitions) /\ Iterable(transitions)
                            THEN Inferred(unioned,
                                          sofar.transitions \o Iterate(transitions),
                                          listed.sources)
                            ELSE Inferred(unioned, sofar.transitions, listed.sources)

Listed(sources, source) == \E i \in DOMAIN sources : sources[i] = source

\* Confidence scoring, in tenths
Confidence(states, sources) ==
    IF Len(states) = 0 THEN 0
    ELSE (IF Listed(sources, "variant-names") THEN 4 ELSE 0)
         + (IF Listed(sources, "prototype-reactions") THEN 3 ELSE 0)
         + (IF Listed(sources, "annotations") THEN 3 ELSE 0)

NoAnnotationsQuestion ==
    "No designer annotations found. Consider using forage_annotate_state to add explicit state rules."

OpenQuestions(states, transitions, sources) ==
    (IF Len(states) > 0 /\ Len(transitions) = 0 THEN <<"States were found but no transitions could be inferred. How do users move between states?">>
     ELSE <<>>)
    \o (IF ~Listed(sources, "annotations") THEN <<NoAnnotationsQuestion>> ELSE <<>>)

\* Suggested implementation: no such key when there are no states.  (The
\* dash of the two texts is a long dash in the source.)
SuggestedImplementation(states, transitions) ==
    IF Len(states) = 0 THEN None
    ELSE "suggestedImplementation" :>
            (IF Len(states) <= 3 /\ Len(transitions) <= 4
             THEN "useState - simple enough for a single state variable"
             ELSE "useReducer - complex state machine with multiple transitions")

HandleInferStates(doc, params) ==
    LET found == FindNodeById(doc, params.nodeId) IN
    IF found.threw THEN found
    ELSE LET node == found.value
             all  == FromAnnotation(node,
                        FromReactions(node,
                            FromVariantNames(node, Inferred(<<>>, <<>>, <<>>))))
         IN Return([nodeId |-> params.nodeId,
                    nodeName |-> node.name,
                    states |-> all.states,
                    transitions |-> all.transitions,
                    confidence |-> Confidence(all.states, all.sources),
                    sources |-> all.sources,
                    openQuestions |-> OpenQuestions(all.states, all.transitions,
                                                    all.sources)]
                   @@ SuggestedImplementation(all.states, all.transitions))

\* ------------------------------------------------------------- annotations
HandleGetAnnotations(doc, params) ==
    LET found == FindNodeById(doc, params.nodeId) IN
    IF found.threw THEN found
    ELSE LET node   == found.value
             raw    == GetSharedPluginData(node)
             parsed == JSONParse(raw)
         IN IF raw = <<>>
            THEN Return([nodeId |-> params.nodeId, nodeName |-> node.name,
                         annotations |-> JNull,
                         message |-> "No annotations found on this node. Use forage_annotate_state to add state rules."])
            ELSE IF parsed.threw
            THEN Return([nodeId |-> params.nodeId, nodeName |-> node.name,
                         annotations |-> JNull, rawData |-> raw,
                         message |-> "Found annotation data but it is not valid JSON"])
            ELSE Return([nodeId |-> params.nodeId, nodeName |-> node.name,
                         annotations |-> parsed.value])

\* handleAnnotateState as far as what it returns or throws goes; the tool's
\* schema makes params.annotation a string.
HandleAnnotateState(doc, params) ==
    LET found == FindNodeById(doc, params.nodeId) IN
    IF found.threw THEN found
    ELSE LET node   == found.value
             parsed == JSONParse(params.annotation)
         IN IF parsed.threw
            THEN ThrowObject("INVALID_ANNOTATION",
                             "Annotation must be valid JSON with states and transitions arrays")
            ELSE Return([nodeId |-> params.nodeId, nodeName |-> node.name,
                         annotation |-> parsed.value,
                         message |-> "State annotation saved successfully. It will persist in the Figma file."])

\* node.setSharedPluginData("forage", "state-rules", json) on the node with
\* the given id: the document with that one value replaced.
RECURSIVE SetSharedPluginData(_, _, _)
SetSharedPluginData(node, nodeId, json) ==
    LET own == IF node.id = nodeId THEN ("sharedPluginData" :> json) @@ node ELSE node IN
    IF Has(node, "children")
    THEN ("children" :> [i \in DOMAIN node.children |->
                            SetSharedPluginData(node.children[i], nodeId, json)])
         @@ own
    ELSE own

SceneAfterAnyWrite(doc, method, params) ==
    IF method = "annotateState" /\ ~FindNodeById(doc, params.nodeId).threw
    THEN SetSharedPluginData(doc, params.nodeId, params.annotation)
    ELSE doc

\* The document after the handler of a command has run: only
\* handleAnnotateState writes, and only when it gets as far as line 1059.
SceneAfter(doc, method, params) ==
    IF method = "annotateState" /\ ~HandleAnnotateState(doc, params).threw
    THEN SetSharedPluginData(doc, params.nodeId, params.annotation)
    ELSE doc

\* dispatch(method, params): the methods of the model, and the default case.
Dispatch(doc, method, params) ==
    CASE method = "getPages"        -> HandleGetPages(doc)
      [] method = "getChildren"     -> HandleGetChildren(doc, params)
      [] method = "getNodeDetail"   -> HandleGetNodeDetail(doc, params)
      [] method = "compareVariants" -> HandleCompareVariants(doc, params)
      [] method = "findSimilar"     -> HandleFindSimilar(doc, params)
      [] method = "inferStates"     -> HandleInferStates(doc, params)
      [] method = "lintNaming"      -> HandleLintNaming(doc, params)
      [] method = "getAnnotations"  -> HandleGetAnnotations(doc, params)
      [] method = "annotateState"   -> HandleAnnotateState(doc, params)
      [] OTHER -> ThrowObject("UNKNOWN_METHOD", "Unknown method: " \o method)

\* ------------------------------------------------------ figma.ui.onmessage
ResultResponse(id, result) == [id |-> id, type |-> "response", result |-> result]

ErrorResponse(id, code, message) ==
    [id |-> id, type |-> "response", error |-> [code |-> code, message |-> message]]

CatchSwallows(id, thrown) == <<>>

\* The catch block: error.code ?? "INTERNAL_ERROR", and error.message for an
\* Error, String(error) for anything else.
Catch(id, thrown) ==
    <<ErrorResponse(id,
                    IF thrown.code = Undefined THEN "INTERNAL_ERROR" ELSE thrown.code,
                    IF thrown.isError THEN thrown.message ELSE "[object Object]")>>

\* What the onmessage handler posts for a command.
Posts(doc, msg) ==
    LET r == Dispatch(doc, msg.method, msg.params) IN
    IF r.threw THEN Catch(msg.id, r) ELSE <<ResultResponse(msg.id, r.value)>>

\* ------------------------------------------------------------ the tool layer
\* textResult / errorResult.  The text of a success is the JSON of the data;
\* the record keeps the data.
TextResult(data) == [content |-> data]
ErrorResult(message) == [content |-> "Error: " \o message, isError |-> TRUE]

\* The frame the bridge parses out of what the UI iframe forwards.
FrameOf(response) ==
    IF Has(response, "error")
    THEN ErrorFrame(response.id, response.error.code, response.error.message)
    ELSE ResultFrame(response.id, response.result)

\* safeCall, given how the promise of bridge.send settled.
SafeCall(settled) ==
    IF settled.state = "resolved" THEN TextResult(settled.value)
    ELSE ErrorResult(settled.value)

NotCalled   == [state |-> "new"]
Pending(id) == [state |-> "pending", id |-> id]
Done(res)   == [state |-> "done", result |-> res]

\* A tool handler runs safeCall(method, params): either the bridge has no
\* live plugin and send() throws, or the command goes out under the next id.
CallTool(i) ==
    /\ i \in DOMAIN script
    /\ toolResult[i] = NotCalled
    /\ \A j \in 1..(i - 1) : toolResult[j] # NotCalled
    /\ \/ /\ toolResult' = [toolResult EXCEPT ![i] = Done(ErrorResult(NotConnectedMsg))]
          /\ UNCHANGED inbox
       \/ LET id == String(NextIdOf(Len(inbox))) IN
          /\ toolResult' = [toolResult EXCEPT ![i] = Pending(id)]
          /\ inbox' = Append(inbox, [id |-> id, method |-> script[i].method,
                                     params |-> script[i].params])
    /\ UNCHANGED <<scene, script, served, posted>>
    /\ UNCHANGED bridgeVars

\* figma.ui.onmessage for the next command.
OnUiMessage ==
    /\ served < Len(inbox)
    /\ served' = served + 1
    /\ posted' = posted \o Posts(scene, inbox[served + 1])
    /\ scene' = SceneAfter(scene, inbox[served + 1].method, inbox[served + 1].params)
    /\ UNCHANGED <<script, inbox, toolResult>>
    /\ UNCHANGED bridgeVars

\* The bridge's message handler gets posted message k while call i is pending
\* under its id.
OnResponse(i, k) ==
    /\ i \in DOMAIN script
    /\ k \in DOMAIN posted
    /\ toolResult[i].state = "pending"
    /\ posted[k].id = toolResult[i].id
    /\ toolResult' = [toolResult EXCEPT
                         ![i] = Done(SafeCall(ResponseOutcome(FrameOf(posted[k]))))]
    /\ UNCHANGED <<scene, script, inbox, served, posted>>
    /\ UNCHANGED bridgeVars

\* The request of call i times out, or its connection closes.
RequestFails(i) ==
    /\ i \in DOMAIN script
    /\ toolResult[i].state = "pending"
    /\ \E msg \in {TimeoutMsg(script[i].method), DisconnectedMsg} :
          toolResult' = [toolResult EXCEPT ![i] = Done(SafeCall(Rejected(msg)))]
    /\ UNCHANGED <<scene, script, inbox, served, posted>>
    /\ UNCHANGED bridgeVars

MaxCalls == 2

ToolNext ==
    \/ \E i \in DOMAIN script : CallTool(i)
    \/ OnUiMessage
    \/ \E i \in DOMAIN script, k \in DOMAIN posted : OnResponse(i, k)
    \/ \E i \in DOMAIN script : RequestFails(i)

\* A run of tool calls: the document and the calls are given, nothing has
\* happened yet, and the bridge variables stay as constructed.
Calls(doc, calls) ==
    /\ BridgeInit
    /\ scene = doc
    /\ script = calls
    /\ inbox = <<>>
    /\ served = 0
    /\ posted = <<>>
    /\ toolResult = [i \in DOMAIN calls |-> NotCalled]

\* ---------------------------------------------------------------- documents
\* Raw nodes as the host hands them out, after the mock nodes of
\* simplifier.test.ts.
With(node, key, value) == (key :> value) @@ node

CssOf(rejects) == [rejects |-> rejects, css |-> [display |-> "flex"]]

\* The auto-layout properties of a frame; mode "absent" is a node without them.
AutoLayout(mode, counterAxisSpacing) ==
    IF mode = "absent" THEN None
    ELSE [layoutMode |-> mode,
          primaryAxisAlignItems |-> "CENTER", counterAxisAlignItems |-> "MIN",
          paddingLeft |-> 16, paddingRight |-> 16, paddingTop |-> 8,
          paddingBottom |-> 8, itemSpacing |-> 12,
          counterAxisSpacing |-> counterAxisSpacing]

FrameNode(id, name, mode, kids) ==
    [id |-> id, name |-> name, type |-> "FRAME", visible |-> TRUE,
     width |-> 3000, height |-> 400, children |-> kids, opacity |-> 100,
     cornerRadius |-> 0, layoutAlign |-> "INHERIT", layoutGrow |-> 0,
     getCSSAsync |-> CssOf(FALSE)]
    @@ AutoLayout(mode, Null)

TextNode(id, name, characters) ==
    [id |-> id, name |-> name, type |-> "TEXT", visible |-> TRUE,
     width |-> 1234, height |-> 447, opacity |-> 100,
     layoutAlign |-> "INHERIT", layoutGrow |-> 0,
     characters |-> characters, fontSize |-> 24, fontWeight |-> 400,
     textAlignHorizontal |-> "LEFT", textAlignVertical |-> "TOP",
     getCSSAsync |-> CssOf(FALSE)]

RectangleNode(id, name, cornerRadius) ==
    [id |-> id, name |-> name, type |-> "RECTANGLE", visible |-> TRUE,
     width |-> 480, height |-> 480, opacity |-> 100,
     cornerRadius |-> cornerRadius, topLeftRadius |-> 4, topRightRadius |-> 4,
     bottomRightRadius |-> 0, bottomLeftRadius |-> 0,
     layoutAlign |-> "INHERIT", layoutGrow |-> 0,
     getCSSAsync |-> CssOf(FALSE)]

PageNode(kids) == [id |-> "0:1", name |-> "Page 1", type |-> "PAGE", children |-> kids]

\* ------------------------------------------------------- tool calls at large
\* A card with a title and an image; the card's CSS call and the page's load
\* call may fail.
CardPage(cssRejects, loadRejects) ==
    LET card == With(FrameNode("1:1", "Card", "VERTICAL",
                               <<TextNode("1:2", "Title", "Hello World"),
                                 RectangleNode("1:3", "Image", 8)>>),
                     "getCSSAsync", CssOf(cssRejects))
        page == PageNode(<<card, TextNode("1:4", "Caption", "Hello")>>)
    IN IF loadRejects
       THEN With(page, "loadAsync", [rejects |-> TRUE, message |-> "Page failed to load"])
       ELSE page

CallNames == {"pages", "children", "childrenOfMissing", "detailWithCss",
              "similar", "unknown"}

CallNamed(name) ==
    CASE name = "pages"    -> [method |-> "getPages", params |-> None]
      [] name = "children" -> [method |-> "getChildren", params |-> [nodeId |-> "1:1"]]
      [] name = "childrenOfMissing"
                           -> [method |-> "getChildren", params |-> [nodeId |-> "9:9"]]
      [] name = "detailWithCss"
                           -> [method |-> "getNodeDetail",
                               params |-> [nodeId |-> "1:1", includeCss |-> TRUE]]
      [] name = "similar"  -> [method |-> "findSimilar", params |-> [nodeId |-> "1:2"]]
      [] name = "unknown"  -> [method |-> "getEverything", params |-> None]

ToolInit ==
    \E cssRejects \in BOOLEAN, loadRejects \in BOOLEAN, n \in 1..MaxCalls :
        \E names \in [1..n -> CallNames] :
            Calls(CardPage(cssRejects, loadRejects),
                  [i \in 1..n |-> CallNamed(names[i])])

ToolSpec == ToolInit /\ [][ToolNext]_vars

\* ------------------------------------------------------------ one projection
\* A wrapper frame that holds the node looked at.  The node is of any type,
\* with or without the auto-layout properties, visible or hidden.
VariantNode(id, name, type, mode, counterAxisSpacing, visible, opacity, label) ==
    LET kids == <<TextNode(id \o ";1", "Label", label)>>
        base == CASE type = "TEXT" -> TextNode(id, name, label)
                  [] type = "RECTANGLE" -> RectangleNode(id, name, Mixed)
                  [] type = "INSTANCE" ->
                        With(With(FrameNode(id, name, "absent", kids), "type", type),
                             "mainComponent", "5:1")
                  [] OTHER -> With(FrameNode(id, name, "absent", kids), "type", type)
    IN [visible |-> visible, opacity |-> opacity]
       @@ AutoLayout(mode, counterAxisSpacing)
       @@ base

SubjectNode(type, mode, counterAxisSpacing, visible, opacity) ==
    VariantNode("1:1", "Subject", type, mode, counterAxisSpacing, visible, opacity,
                "Hello World")

SubjectPage(subject) == PageNode(<<FrameNode("1:0", "Wrapper", "NONE", <<subject>>)>>)

ProjectorInit ==
    \E type \in {"FRAME", "COMPONENT", "INSTANCE", "TEXT", "RECTANGLE"},
       mode \in {"absent", "NONE", "HORIZONTAL", "VERTICAL"},
       counterAxisSpacing \in {Null, 8},
       visible \in BOOLEAN,
       opacity \in {100, 50},
       call \in {[method |-> "getNodeDetail", params |-> [nodeId |-> "1:1"]],
                 [method |-> "getChildren", params |-> [nodeId |-> "1:0"]]} :
        Calls(SubjectPage(SubjectNode(type, mode, counterAxisSpacing, visible, opacity)),
              <<call>>)

ProjectorSpec == ProjectorInit /\ [][ToolNext]_vars

\* ------------------------------------------------------------------ subtrees
MaxLevels == 3   \* levels below the node get_children is asked about
MaxKids   == 2   \* children of a node

\* The node at position j of level l; the node asked about is level 0.
NodeId(l, j) == String(l + 1) \o ":" \o String(j)

\* A node that ends a branch: a text node, or a frame with no children.
TipNode(l, j, type) ==
    IF type = "TEXT" THEN TextNode(NodeId(l, j), "Text", "Hello")
    ELSE FrameNode(NodeId(l, j), "Empty", "NONE", <<>>)

\* A subtree `levels` deep: one branch goes all the way down and ends in a
\* tip; at level l it has kids[l] - 1 siblings, all tips of type sibling[l].
RECURSIVE SpineNode(_, _, _, _, _)
SpineNode(l, levels, kids, sibling, tip) ==
    IF l = levels THEN TipNode(l, 1, tip)
    ELSE FrameNode(NodeId(l, 1), "Group", "NONE",
                   <<SpineNode(l + 1, levels, kids, sibling, tip)>>
                   \o [j \in 1..(kids[l + 1] - 1) |->
                          TipNode(l + 1, j + 1, sibling[l + 1])])

NavigatorInit ==
    \E levels \in 0..MaxLevels, tip \in {"TEXT", "FRAME"} :
        \E kids \in [1..levels -> 1..MaxKids],
           sibling \in [1..levels -> {"TEXT", "FRAME"}],
           depth \in 0..(MaxLevels + 1) :     \* 0: the call gives no depth
            Calls(PageNode(<<SpineNode(0, levels, kids, sibling, tip)>>),
                  <<[method |-> "getChildren",
                     params |-> IF depth = 0 THEN [nodeId |-> NodeId(0, 1)]
                                ELSE [nodeId |-> NodeId(0, 1), depth |-> depth]]>>)

NavigatorSpec == NavigatorInit /\ [][ToolNext]_vars

\* ---------------------------------------------------------------- two nodes
\* Two nodes A and B side by side, compared both ways round (or A with
\* itself, B with itself).
DifferInit ==
    \E typeA \in {"FRAME", "TEXT", "INSTANCE"}, typeB \in {"FRAME", "TEXT"},
       modeA \in {"NONE", "HORIZONTAL"}, modeB \in {"absent", "HORIZONTAL"},
       visibleA \in BOOLEAN, opacityB \in {100, 50},
       labelA \in {"OK", "Cancel"},
       x \in {"1:1", "1:2"}, y \in {"1:1", "1:2"} :
        Calls(PageNode(<<VariantNode("1:1", "A", typeA, modeA, Null, visibleA, 100, labelA),
                         VariantNode("1:2", "B", typeB, modeB, 8, TRUE, opacityB, "OK")>>),
              <<[method |-> "compareVariants", params |-> [nodeIdA |-> x, nodeIdB |-> y]],
                [method |-> "compareVariants", params |-> [nodeIdA |-> y, nodeIdB |-> x]]>>)

DifferSpec == DifferInit /\ [][ToolNext]_vars

\* ------------------------------------------------------- a page of lookalikes
MaxCopies == 11   \* nodes in one group of equal candidates

\* n nodes that differ in their ids only; ids are group:1 .. group:n.
Copies(group, n, name, type, mode, counterAxisSpacing, visible) ==
    [j \in 1..n |-> VariantNode(group \o ":" \o String(j), name, type, mode,
                                counterAxisSpacing, visible, 100, "OK")]

\* The target, a first group of candidates on the page itself, a second
\* group inside a wrapper, and a rectangle.
ScorerPage(type, n1, mode1, n2, counterAxisSpacing2, visible2) ==
    PageNode(<<VariantNode("1:1", "Target", type, "HORIZONTAL", Null, TRUE, 100, "OK")>>
             \o Copies("2", n1, "Copy", type, mode1, Null, TRUE)
             \o <<With(FrameNode("9:1", "Wrapper", "NONE",
                                 Copies("3", n2, "Other", type, "HORIZONTAL",
                                        counterAxisSpacing2, visible2)),
                       "type", "GROUP"),
                  RectangleNode("4:1", "Box", 0)>>)

ScorerInit ==
    \E type \in {"FRAME", "TEXT", "INSTANCE"},
       n1 \in {0, 1, MaxCopies}, mode1 \in {"HORIZONTAL", "NONE"},
       n2 \in {0, 1, MaxCopies}, counterAxisSpacing2 \in {Null, 8},
       visible2 \in BOOLEAN,
       threshold \in {-1, 0, 50, 80, 100} :     \* -1: the call gives no threshold
        Calls(ScorerPage(type, n1, mode1, n2, counterAxisSpacing2, visible2),
              <<[method |-> "findSimilar",
                 params |-> IF threshold = -1 THEN [nodeId |-> "1:1"]
                            ELSE [nodeId |-> "1:1", threshold |-> threshold]]>>)

ScorerSpec == ScorerInit /\ [][ToolNext]_vars

\* ------------------------------------------------------------ a page to lint
MaxFrames == 21   \* layers on the page that still carry their default name

\* A layer as the linter sees it; the name is text.
Layer(id, name, type, kids) ==
    IF type \in {"FRAME", "GROUP"}
    THEN [id |-> id, name |-> name, type |-> type, visible |-> TRUE, children |-> kids]
    ELSE [id |-> id, name |-> name, type |-> type, visible |-> TRUE]


\* A group named at will that holds a rectangle named at will, a text layer,
\* and n frames named "Frame 1" .. "Frame n", as the editor names them.
LintPage(groupName, boxName, n) ==
    PageNode(<<Layer("1:1", groupName, "GROUP",
                     <<Layer("1:2", boxName, "RECTANGLE", <<>>)>>),
               Layer("1:3", <<"H", "e", "r", "o", " ", "F", "r", "a", "m", "e">>,
                     "TEXT", <<>>)>>
             \o [j \in 1..n |-> Layer("5:" \o String(j),
                                      <<"F", "r", "a", "m", "e", " ">> \o DigitChars(j),
                                      "FRAME", <<>>)])

LinterInit ==
    \E word \in { <<"F", "r", "a", "m", "e">>, <<"g", "R", "O", "U", "P">>,
                 <<"H", "e", "r", "o">>, <<"F", "r", "a", "m", "e", "d">> },
       gap \in { <<>>, <<" ">>, <<" ", "\t">>, <<"-">> },
       number \in { <<>>, <<"4", "7">>, <<"4", "a">>, <<"F", "r", "a", "m", "e">> },
       tail \in { <<>>, <<" ">> },
       boxName \in { <<"R", "e", "c", "t", "a", "n", "g", "l", "e", " ", "3">>,
                     <<" ", "F", "r", "a", "m", "e", " ", "4", "7">> },
       n \in {0, 1, MaxFrames},
       params \in {None, [pageId |-> "0:1"], [pageId |-> "1:1"]} :
        Calls(LintPage(word \o gap \o number \o tail, boxName, n),
              <<[method |-> "lintNaming", params |-> params]>>)

LinterSpec == LinterInit /\ [][ToolNext]_vars

\* ------------------------------------------------------- a variant group
MaxVariants == 2   \* variants of the component set

\* The names a variant of the model may carry: State=Default, State=Hover,
\* State=Pressed, State=Focus, State=Disabled, state=default,
\* "Size=Large, State= Hover " and Primary.
VariantNames ==
    { <<"S", "t", "a", "t", "e", "=", "D", "e", "f", "a", "u", "l", "t">>,
      <<"S", "t", "a", "t", "e", "=", "H", "o", "v", "e", "r">>,
      <<"S", "t", "a", "t", "e", "=", "P", "r", "e", "s", "s", "e", "d">>,
      <<"S", "t", "a", "t", "e", "=", "F", "o", "c", "u", "s">>,
      <<"S", "t", "a", "t", "e", "=", "D", "i", "s", "a", "b", "l", "e", "d">>,
      <<"s", "t", "a", "t", "e", "=", "d", "e", "f", "a", "u", "l", "t">>,
      <<"S", "i", "z", "e", "=", "L", "a", "r", "g", "e", ",", " ", "S", "t", "a", "t", "e", "=", " ", "H", "o", "v", "e", "r", " ">>,
      <<"P", "r", "i", "m", "a", "r", "y">> }

ButtonText == <<"B", "u", "t", "t", "o", "n">>

\* What the node may carry as reactions: none ("absent"), one with a trigger
\* and two actions, or one without a trigger.
ReactionsOf(kind) ==
    CASE kind = "absent" -> None
      [] kind = "click" ->
            "reactions" :>
                <<[trigger |-> [type |-> <<"O", "N", "_", "C", "L", "I", "C", "K">>],
                   actions |-> <<[type |-> <<"N", "O", "D", "E">>,
                                  destinationId |-> JStr(<<"7", ":", "1">>)],
                                 [type |-> <<"B", "A", "C", "K">>]>>]>>
      [] kind = "untriggered" ->
            "reactions" :>
                <<[actions |-> <<[type |-> <<"N", "O", "D", "E">>, destinationId |-> JNull]>>]>>

\* {"from": from, "to": to, "trigger": trigger} as a JSON text
TransitionTokens(from, to, trigger) ==
    <<Mark("{"), StrToken(<<"f", "r", "o", "m">>), Mark(":"), StrToken(from), Mark(","),
      StrToken(<<"t", "o">>), Mark(":"), StrToken(to), Mark(","),
      StrToken(<<"t", "r", "i", "g", "g", "e", "r">>), Mark(":"), StrToken(trigger), Mark("}")>>

LoadingText == <<"L", "o", "a", "d", "i", "n", "g">>
ClickText   == <<"O", "N", "_", "C", "L", "I", "C", "K">>
StatesKey      == StrToken(<<"s", "t", "a", "t", "e", "s">>)
TransitionsKey == StrToken(<<"t", "r", "a", "n", "s", "i", "t", "i", "o", "n", "s">>)

\* {"states": ["Loading", "Hover"], "transitions": [{"from": "Hover", ...}]}
RulesTokens ==
    <<Mark("{"), StatesKey, Mark(":"),
      Mark("["), StrToken(LoadingText), Mark(","), StrToken(HoverText), Mark("]"),
      Mark(","), TransitionsKey, Mark(":"), Mark("[")>>
    \o TransitionTokens(HoverText, LoadingText, ClickText)
    \o <<Mark("]"), Mark("}")>>

\* What the document may hold as the node's stored annotation: nothing,
\* state rules, the text null, or text that is not JSON (a record cut short,
\* a note in plain words).
StoredTexts ==
    << <<>>,
       RulesTokens,
       <<LitToken("null")>>,
       <<Mark("{"), StatesKey, Mark(":"), Mark("["), StrToken(LoadingText)>>,
       <<WordToken, WordToken>> >>

\* The node infer_states is asked about, with its variants.
ButtonNode(type, names, reactions, stored) ==
    [id |-> "1:1", name |-> ButtonText, type |-> type, visible |-> TRUE,
     children |-> [j \in DOMAIN names |->
                     [id |-> "2:" \o String(j), name |-> names[j],
                      type |-> "COMPONENT", visible |-> TRUE]],
     sharedPluginData |-> stored]
    @@ ReactionsOf(reactions)

InferrerInit ==
    \E type \in {"COMPONENT_SET", "FRAME"}, n \in 0..MaxVariants,
       reactions \in {"absent", "click", "untriggered"},
       stored \in DOMAIN StoredTexts :
        \E names \in [1..n -> VariantNames] :
            Calls(PageNode(<<ButtonNode(type, names, reactions, StoredTexts[stored])>>),
                  <<[method |-> "inferStates", params |-> [nodeId |-> "1:1"]]>>)

InferrerSpec == InferrerInit /\ [][ToolNext]_vars

\* ------------------------------------------------------ writes and reads
\* {"states": ["Idle"]}: what a node holds from an earlier session
OldRulesTokens ==
    <<Mark("{"), StatesKey, Mark(":"), Mark("["), StrToken(<<"I", "d", "l", "e">>), Mark("]"),
      Mark("}")>>

\* {"states": {"Default": true}, "transitions": [{"from": "Hover", ...}]}:
\* JSON, with the states keyed by name instead of listed
KeyedRulesTokens ==
    <<Mark("{"), StatesKey, Mark(":"),
      Mark("{"), StrToken(DefaultText), Mark(":"), LitToken("true"), Mark("}"),
      Mark(","), TransitionsKey, Mark(":"), Mark("[")>>
    \o TransitionTokens(HoverText, LoadingText, ClickText)
    \o <<Mark("]"), Mark("}")>>

\* The payloads annotate_state is called with: state rules, rules with the
\* states keyed, a record cut short, the text null, the empty string.
Payloads ==
    << RulesTokens,
       KeyedRulesTokens,
       <<Mark("{"), StatesKey, Mark(":"), Mark("["), StrToken(LoadingText)>>,
       <<LitToken("null")>>,
       <<>> >>

\* Two annotated nodes side by side.
AnnotatedPage ==
    PageNode(<<[id |-> "1:1", name |-> ButtonText, type |-> "FRAME", visible |-> TRUE,
                children |-> <<>>, sharedPluginData |-> OldRulesTokens],
               [id |-> "1:2", name |-> <<"C", "a", "r", "d">>, type |-> "FRAME",
                visible |-> TRUE, children |-> <<>>,
                sharedPluginData |-> OldRulesTokens]>>)

AnnotateCall(nodeId, p) ==
    [method |-> "annotateState", params |-> [nodeId |-> nodeId, annotation |-> Payloads[p]]]

ReadCall(method, nodeId) == [method |-> method, params |-> [nodeId |-> nodeId]]

\* A write to the first node, then a write to either node or a read, then a
\* read.
AnnotatorInit ==
    \E p \in DOMAIN Payloads, q \in DOMAIN Payloads,
       second \in {"write", "writeOther", "get", "infer"},
       third \in {"get", "infer", "getOther"} :
        Calls(AnnotatedPage,
              <<AnnotateCall("1:1", p),
                CASE second = "write"      -> AnnotateCall("1:1", q)
                  [] second = "writeOther" -> AnnotateCall("1:2", q)
                  [] second = "get"        -> ReadCall("getAnnotations", "1:1")
                  [] second = "infer"      -> ReadCall("inferStates", "1:1"),
                CASE third = "get"      -> ReadCall("getAnnotations", "1:1")
                  [] third = "infer"    -> ReadCall("inferStates", "1:1")
                  [] third = "getOther" -> ReadCall("getAnnotations", "1:2")>>)

AnnotatorSpec == AnnotatorInit /\ [][ToolNext]_vars

\* ------------------------------------------------------------- two families
\* A child of a compared node: a text, an empty frame, or a frame that holds
\* a text of its own.
Kid(id, kind) ==
    CASE kind = "TEXT"  -> TextNode(id, "Label", "OK")
      [] kind = "EMPTY" -> FrameNode(id, "Slot", "NONE", <<>>)
      [] kind = "FULL"  -> FrameNode(id, "Slot", "NONE",
                                     <<TextNode(id \o ";1", "Deep", "OK")>>)

\* A compared node: a frame with the given children, or a text.
FamilyNode(id, leaf, kinds) ==
    IF leaf THEN TextNode(id, "Item", "OK")
    ELSE FrameNode(id, "Item", "NONE",
                   [j \in DOMAIN kinds |-> Kid(id \o ";" \o String(j), kinds[j])])

FamilyInit ==
    \E nA \in 0..MaxKids, nB \in 0..MaxKids, leafA \in BOOLEAN,
       x \in {"1:1", "1:2"}, y \in {"1:1", "1:2"} :
        \E kindsA \in [1..nA -> {"TEXT", "EMPTY", "FULL"}],
           kindsB \in [1..nB -> {"TEXT", "EMPTY", "FULL"}] :
            Calls(PageNode(<<FamilyNode("1:1", leafA, kindsA),
                             FamilyNode("1:2", FALSE, kindsB)>>),
                  <<[method |-> "compareVariants",
                     params |-> [nodeIdA |-> x, nodeIdB |-> y]]>>)

FamilySpec == FamilyInit /\ [][ToolNext]_vars

\* --------------------------------------------------------------- bare nodes
\* A node of which the projection takes its id, name and type only ("bare"),
\* one that is hidden besides, or one that has a size.
PlainNode(id, kind) ==
    CASE kind = "bare"   -> [id |-> id, name |-> "Shape", type |-> "VECTOR", visible |-> TRUE]
      [] kind = "hidden" -> [id |-> id, name |-> "Shape", type |-> "VECTOR", visible |-> FALSE]
      [] kind = "sized"  -> [id |-> id, name |-> "Shape", type |-> "VECTOR", visible |-> TRUE,
                             width |-> 240, height |-> 240]

\* The target and its candidates side by side, and a text.
BareInit ==
    \E target \in {"bare", "sized"}, n \in 0..MaxKids,
       threshold \in {-1, 0, 1, 50, 100} :     \* -1: the call gives no threshold
        \E kinds \in [1..n -> {"bare", "hidden", "sized"}] :
            Calls(PageNode(<<PlainNode("1:1", target)>>
                           \o [j \in 1..n |-> PlainNode("2:" \o String(j), kinds[j])]
                           \o <<TextNode("4:1", "Caption", "Hello")>>),
                  <<[method |-> "findSimilar",
                     params |-> IF threshold = -1 THEN [nodeId |-> "1:1"]
                                ELSE [nodeId |-> "1:1", threshold |-> threshold]]>>)

BareSpec == BareInit /\ [][ToolNext]_vars

\* ------------------------------------------------------------ properties
Sent == 1..Len(wire)

IsSettled(o) == o.state \in {"resolved", "rejected"}

\* The number a correlation id is the decimal form of.
IdNumber(s) == CHOOSE n \in 0..(MaxReq + 1) : String(n) = s

\* C1: under any interleaving of response, timeout and close, a request's
\* resolve/reject is called at most once in total (never both, never twice)
\* and its pending-map entry is removed at most once.
C1_AtMostOneTerminalEvent ==
    \A p \in Promises :
        /\ resolveCalls[p] + rejectCalls[p] <= 1
        /\ removals[p] <= 1
        /\ (IsSettled(outcome[p]) => resolveCalls[p] + rejectCalls[p] = 1)

\* A request answered by its response, whose connection closed afterwards.
C1_Witness ==
    \E p \in Sent :
        /\ outcome[p] = Resolved(ResultOf(wire[p].id))
        /\ readyState[wire[p].conn] = "CLOSED"
        /\ removals[p] = 1
        /\ event.type = "close"

\* C2: every request send() accepted is eventually settled and its entry
\* removed from the pending map, whatever bridge operations follow.
C2_EveryRequestEventuallySettled ==
    \A p \in Promises :
        (outcome[p] = Unsettled)
            ~> (IsSettled(outcome[p]) /\ wire[p].id \notin DOMAIN pendingRequests)

\* C3: send() without a live connection (none accepted yet, or the current one
\* no longer open) throws the connection error and creates no pending entry,
\* arms no timer, writes no command and assigns no id.
C3_SendWithoutConnectionFails ==
    [][ (event'.type = "send" /\ ~(plugin # 0 /\ readyState[plugin] = "OPEN"))
        => /\ event'.error = NotConnectedMsg
           /\ pendingRequests' = pendingRequests
           /\ timers' = timers
           /\ wire' = wire
           /\ nextId' = nextId
           /\ outcome' = outcome ]_vars

\* A send() that failed after the last connection had closed.
C3_Witness ==
    /\ event.type = "send"
    /\ event.error = NotConnectedMsg
    /\ plugin = 0
    /\ \E c \in Conns : readyState[c] = "CLOSED"

\* C4: when the current connection's close event is delivered, every request
\* pending at that moment is rejected with "Figma plugin disconnected", its
\* timer is cancelled, the map is empty and the bridge is not connected.
C4_CloseRejectsAllPending ==
    [][ \A c \in Conns :
          (plugin = c /\ readyState[c] # "CLOSED" /\ readyState'[c] = "CLOSED")
          => /\ \A k \in DOMAIN pendingRequests :
                  /\ outcome'[pendingRequests[k]] = Rejected("Figma plugin disconnected")
                  /\ pendingRequests[k] \notin timers'
             /\ DOMAIN pendingRequests' = {}
             /\ ~(plugin' # 0 /\ readyState'[plugin'] = "OPEN") ]_vars

\* The current connection closed with a request pending, before any timeout.
C4_Witness ==
    /\ event.type = "close"
    /\ plugin = 0
    /\ \E p \in Sent :
         /\ outcome[p] = Rejected(DisconnectedMsg)
         /\ rejectCalls[p] = 1
         /\ p \notin timers

\* C5: a request sent over a connection that has since been replaced by a newer
\* one, while it is still pending, is rejected with the disconnection error:
\* its timer does not fire first, and no frame handled on the replacement
\* connection settles it.
C5_ReplacedConnectionRejects ==
    [][ \A p \in Sent :
          (outcome[p] = Unsettled /\ plugin # 0 /\ wire[p].conn # plugin)
          => /\ ~Timeout(p)
             /\ \A f \in Frames : OnMessage(plugin, f) => outcome'[p] = outcome[p]
             /\ outcome'[p] \in {Unsettled, Rejected(DisconnectedMsg)} ]_vars

\* C6: a response settles exactly the request whose correlation id it carries,
\* with its own result, or with "[code] message" when it carries an error;
\* every other request is left as it was, in whatever order responses come.
C6_SettledByOwnResponseOnly ==
    [][ event'.type = "message"
        => \A p \in Promises :
              outcome'[p] # outcome[p]
              => /\ p \in Sent
                 /\ wire[p].id = event'.arg
                 /\ outcome[p] = Unsettled
                 /\ \E f \in Frames :
                       /\ f.parses
                       /\ f.id = wire[p].id
                       /\ HandleResponse(f)
                       /\ outcome'[p] = IF f.hasError
                                        THEN Rejected("[" \o f.code \o "] " \o f.message)
                                        ELSE Resolved(f.result) ]_vars

\* Two requests pending together; the later one was answered first with its
\* own result, then the earlier one with an error.
C6_Witness ==
    /\ Len(wire) >= 2
    /\ outcome[2] = Resolved(ResultOf(wire[2].id))
    /\ outcome[1] = Rejected("[NODE_NOT_FOUND] Node not found")
    /\ event = Ev("message", wire[1].id, "")

\* C7: a frame that does not parse, or whose id has no pending entry, changes
\* nothing: no promise, no map entry, no timer, no connection state, no id.
C7_UnmatchedFrameDropped ==
    [][ (/\ event'.type = "message"
         /\ (event'.arg = GarbageFrame.id \/ event'.arg \notin DOMAIN pendingRequests))
        => UNCHANGED <<plugin, readyState, peerDone, wssClosed, nextId,
                       pendingRequests, timers, wire, outcome, resolveCalls,
                       rejectCalls, removals>> ]_vars

\* The response to a request that had already timed out arrived, while
\* another request was pending.
C7_Witness ==
    \E p \in Sent, q \in Sent :
        /\ event = Ev("message", wire[p].id, "")
        /\ outcome[p] = Rejected(TimeoutMsg(wire[p].method))
        /\ outcome[q] = Unsettled
        /\ q \in timers

\* C8: the ids send() assigns are strictly increasing in send order, hence
\* pairwise distinct, across disconnects and replacement; a key of the pending
\* map belongs to the one request that was assigned it.
C8_IdsUniqueIncreasing ==
    /\ \A i \in Sent, j \in Sent :
          i < j => IdNumber(wire[i].id) < IdNumber(wire[j].id)
    /\ \A k \in DOMAIN pendingRequests :
          /\ pendingRequests[k] \in Sent
          /\ wire[pendingRequests[k]].id = k
          /\ Cardinality({p \in Sent : wire[p].id = k}) = 1

\* Two requests sent over different connections, the first of them closed.
C8_Witness ==
    /\ Len(wire) >= 2
    /\ wire[1].conn # wire[2].conn
    /\ readyState[wire[1].conn] = "CLOSED"
    /\ wire[2].id \in DOMAIN pendingRequests

\* C9: only the current connection is ever open; accepting a connection closes
\* the older one and makes the new one current; every send() writes to the
\* current connection; the close event of a connection that is not current
\* leaves the current one in place.
C9_SingleNewestConnection ==
    /\ [](\A c \in Conns : readyState[c] = "OPEN" => plugin = c)
    /\ [][ /\ (plugin' # plugin /\ plugin' # 0)
              => /\ readyState'[plugin'] = "OPEN"
                 /\ (plugin # 0 => readyState'[plugin] # "OPEN")
           /\ (Len(wire') > Len(wire))
              => /\ wire'[Len(wire')].conn = plugin
                 /\ readyState[plugin] = "OPEN"
           /\ \A c \in Conns :
                 (readyState[c] # "CLOSED" /\ readyState'[c] = "CLOSED" /\ plugin # c)
                 => /\ plugin' = plugin
                    /\ (plugin # 0 => readyState'[plugin] = readyState[plugin]) ]_vars

\* The evicted connection's close event was delivered while its replacement
\* is open and has carried a request.
C9_Witness ==
    /\ event.type = "close"
    /\ plugin # 0
    /\ readyState[plugin] = "OPEN"
    /\ \E c \in Conns : c < plugin /\ readyState[c] = "CLOSED"
    /\ \E p \in Sent : wire[p].conn = plugin

\* C10: when a request's timer fires it is rejected with the timeout error and
\* its entry leaves the map; the other requests keep their promise state,
\* timers and entries; afterwards nothing settles that request again.
C10_TimeoutRejectsOnlyItsRequest ==
    [][ /\ \A p \in Promises :
              Timeout(p)
              => /\ outcome[p] = Unsettled
                 /\ outcome'[p] = Rejected("Request timed out after 10s: " \o wire[p].method)
                 /\ wire[p].id \notin DOMAIN pendingRequests'
                 /\ p \notin timers'
                 /\ \A q \in Promises \ {p} :
                       /\ outcome'[q] = outcome[q]
                       /\ (q \in timers' <=> q \in timers)
                       /\ \A k \in DOMAIN pendingRequests :
                             pendingRequests[k] = q
                             => (k \in DOMAIN pendingRequests' /\ pendingRequests'[k] = q)
        /\ \A p \in Sent :
              outcome[p] = Rejected("Request timed out after 10s: " \o wire[p].method)
              => /\ outcome'[p] = outcome[p]
                 /\ resolveCalls'[p] = resolveCalls[p]
                 /\ rejectCalls'[p] = rejectCalls[p] ]_vars

\* The first request timed out on an open connection while the second stays
\* pending with its timer armed.
C10_Witness ==
    /\ event.type = "timeout"
    /\ Len(wire) >= 2
    /\ outcome[1] = Rejected(TimeoutMsg(wire[1].method))
    /\ readyState[wire[1].conn] = "OPEN"
    /\ outcome[2] = Unsettled
    /\ 2 \in timers
    /\ wire[2].id \in DOMAIN pendingRequests

\* C11: when the current connection reports an error event, the bridge is
\* Disconnected afterwards, every request pending at that moment is rejected
\* with "Figma plugin disconnected" and the pending map is empty, as on a
\* close event.  The step is an error event that takes the current
\* connection, until then untouched by its peer, out of service.
C11_ErrorRejectsLikeClose ==
    [][ (/\ event'.type = "error"
         /\ plugin # 0
         /\ plugin \notin peerDone
         /\ plugin \in peerDone')
        => /\ ~(plugin' # 0 /\ readyState'[plugin'] = "OPEN")
           /\ DOMAIN pendingRequests' = {}
           /\ \A k \in DOMAIN pendingRequests :
                 outcome'[pendingRequests[k]] = Rejected("Figma plugin disconnected") ]_vars

\* The posted messages that carry the id of command j.
ResponsesTo(j) == {k \in DOMAIN posted : posted[k].id = inbox[j].id}

\* C12: every command the onmessage handler has run for has exactly one
\* posted response carrying its id: a result when the handler returned, an
\* error with a code and a message when it threw, with code UNKNOWN_METHOD
\* for a method the dispatcher does not know; a command not yet handled has
\* none, and commands after a failed one are answered like any other.
C12_ExactlyOneResponsePerCommand ==
    \A j \in DOMAIN inbox :
        IF j > served THEN ResponsesTo(j) = {}
        ELSE /\ Cardinality(ResponsesTo(j)) = 1
             /\ \A k \in ResponsesTo(j) :
                   /\ posted[k].type = "response"
                   /\ ("result" \in DOMAIN posted[k]) # ("error" \in DOMAIN posted[k])
                   /\ ("result" \in DOMAIN posted[k])
                         <=> ~Dispatch(scene, inbox[j].method, inbox[j].params).threw
                   /\ "error" \in DOMAIN posted[k]
                         => /\ posted[k].error.code # ""
                            /\ posted[k].error.message # ""
                   /\ inbox[j].method = "getEverything"
                         => /\ "error" \in DOMAIN posted[k]
                            /\ posted[k].error.code = "UNKNOWN_METHOD"

\* The first command named an unknown method and got its error response; the
\* second one was served afterwards and got its result.
C12_Witness ==
    /\ served = 2
    /\ Len(posted) = 2
    /\ inbox[1].method = "getEverything"
    /\ posted[1] = ErrorResponse(inbox[1].id, "UNKNOWN_METHOD", "[object Object]")
    /\ posted[2].id = inbox[2].id
    /\ "result" \in DOMAIN posted[2]

\* C13: a tool call whose handler had a failing step ends in an error result:
\* a success result means the node was found, the page loaded, and, when the
\* CSS was asked for, the host's CSS call succeeded and the payload carries
\* the css.
C13_FailedStepGivesErrorResult ==
    \A i \in DOMAIN script :
        (toolResult[i].state = "done" /\ "isError" \notin DOMAIN toolResult[i].result)
        => LET method == script[i].method
               params == script[i].params IN
           /\ method \in {"getChildren", "getNodeDetail", "findSimilar"}
                 => GetNodeById(scene, params.nodeId) # <<>>
           /\ method = "findSimilar"
                 => ~("loadAsync" \in DOMAIN scene /\ scene.loadAsync.rejects)
           /\ (method = "getNodeDetail" /\ "includeCss" \in DOMAIN params
                                         /\ params.includeCss)
                 => /\ ~GetNodeById(scene, params.nodeId)[1].getCSSAsync.rejects
                    /\ "css" \in DOMAIN toolResult[i].result.content

\* The node the projector is applied to.
Subject == scene.children[1].children[1]

\* The projections of the subject node among the posted results: the detail
\* itself, or the wrapper's only child.
SubjectProjections ==
    {IF inbox[1].method = "getNodeDetail" THEN posted[k].result
     ELSE posted[k].result.children[1] :
        k \in {k \in DOMAIN posted : "result" \in DOMAIN posted[k]}}

LayoutKeys == {"layoutMode", "primaryAxisAlignItems", "counterAxisAlignItems",
               "paddingLeft", "paddingRight", "paddingTop", "paddingBottom",
               "itemSpacing"}

\* C15: a projection carries layoutMode, both axis alignments, the four
\* paddings and itemSpacing all together, with the node's values, exactly
\* when the node has a layout mode other than NONE; for NONE, or for a node
\* without a layout mode, it carries none of them.
C15_LayoutFieldsOnlyWithLayoutMode ==
    \A proj \in SubjectProjections :
        IF "layoutMode" \in DOMAIN Subject /\ Subject.layoutMode # "NONE"
        THEN /\ LayoutKeys \subseteq DOMAIN proj
             /\ \A key \in LayoutKeys : proj[key] = Subject[key]
        ELSE LayoutKeys \cap DOMAIN proj = {}

\* A node whose layout mode is NONE, paddings set, was projected without them.
C15_Witness ==
    /\ SubjectProjections # {}
    /\ "layoutMode" \in DOMAIN Subject
    /\ Subject.layoutMode = "NONE"
    /\ Subject.paddingLeft = 16
    /\ \A proj \in SubjectProjections : "paddingLeft" \notin DOMAIN proj

\* The depth a get_children call asks for; unspecified counts as 1.
AskedDepth == IF "depth" \in DOMAIN inbox[1].params THEN inbox[1].params.depth ELSE 1

\* proj, at level `level` of a result, and everything below it: every node
\* above level d carries `children`, every node at level d carries none.
RECURSIVE CutAtLevel(_, _, _)
CutAtLevel(proj, level, d) ==
    IF level >= d THEN "children" \notin DOMAIN proj
    ELSE /\ "children" \in DOMAIN proj
         /\ \A i \in DOMAIN proj.children : CutAtLevel(proj.children[i], level + 1, d)

\* C16 as stated: in the result of get_children(id, depth = d) the nodes at
\* levels 1..d-1 carry a `children` field and the nodes at level d carry none
\* (so nothing deeper than level d appears); unspecified depth is d = 1.
C16_EveryLevelAboveDepthHasChildren ==
    \A k \in DOMAIN posted :
        "result" \in DOMAIN posted[k]
        => \A i \in DOMAIN posted[k].result.children :
              CutAtLevel(posted[k].result.children[i], 1, AskedDepth)

\* proj is the projection of raw, cut at level d: its `children` are the
\* projections of raw's children when raw can have children and lies above
\* level d; otherwise it has no `children`.
RECURSIVE CutAtLevelOf(_, _, _, _)
CutAtLevelOf(proj, raw, level, d) ==
    /\ proj.id = raw.id
    /\ IF level < d /\ "children" \in DOMAIN raw
       THEN /\ "children" \in DOMAIN proj
            /\ Len(proj.children) = Len(raw.children)
            /\ \A i \in DOMAIN raw.children :
                  CutAtLevelOf(proj.children[i], raw.children[i], level + 1, d)
       ELSE "children" \notin DOMAIN proj

\* C16, amended: the result holds the projections of the descendants down to
\* level d only; a node at levels 1..d-1 carries `children` exactly if it is
\* a node that can have children (a text node or other leaf never does), a
\* node at level d carries none; unspecified depth is d = 1.
C16_TruncatedAtDepth ==
    \A k \in DOMAIN posted :
        "result" \in DOMAIN posted[k]
        => LET raw == scene.children[1] IN
           /\ Len(posted[k].result.children) = Len(Children(raw))
           /\ \A i \in DOMAIN posted[k].result.children :
                 CutAtLevelOf(posted[k].result.children[i], raw.children[i],
                              1, AskedDepth)

\* depth = 2 on a subtree three levels deep: the child carries its children,
\* and the grandchild, which has a child of its own, carries no `children`.
C16_Witness ==
    /\ posted # <<>>
    /\ "result" \in DOMAIN posted[1]
    /\ AskedDepth = 2
    /\ Len(Descendants(scene.children[1])) > Len(Descendants(posted[1].result))
    /\ posted[1].result.children # <<>>
    /\ "children" \in DOMAIN posted[1].result.children[1]
    /\ posted[1].result.children[1].children # <<>>
    /\ "children" \notin DOMAIN posted[1].result.children[1].children[1]
    /\ posted[1].result.children[1].children[1].childCount >= 1

\* The results of compare posted so far, each with the ids it was asked for.
Compared ==
    {[a |-> inbox[k].params.nodeIdA, b |-> inbox[k].params.nodeIdB,
      result |-> posted[k].result] :
        k \in {k \in DOMAIN posted : "result" \in DOMAIN posted[k]}}

\* C17: compare(A, B) and compare(B, A) report the same differing keys and
\* the same count, with the a and b values swapped; compare(A, A) reports no
\* difference and count 0; the count is the number of keys in the map.
C17_CompareSymmetric ==
    \A c \in Compared :
        /\ c.result.differenceCount = Cardinality(DOMAIN c.result.differences)
        /\ c.a = c.b => (DOMAIN c.result.differences = {} /\ c.result.differenceCount = 0)
        /\ \A e \in Compared :
              (e.a = c.b /\ e.b = c.a)
              => /\ DOMAIN e.result.differences = DOMAIN c.result.differences
                 /\ e.result.differenceCount = c.result.differenceCount
                 /\ \A key \in DOMAIN c.result.differences :
                       /\ e.result.differences[key].a = c.result.differences[key].b
                       /\ e.result.differences[key].b = c.result.differences[key].a

\* A and B were compared both ways round; they differ in a key only B has
\* (opacity) and in one both have (name).
C17_Witness ==
    /\ Cardinality(Compared) = 2
    /\ \E c \in Compared :
          /\ c.a = "1:1" /\ c.b = "1:2"
          /\ {"name", "opacity"} \subseteq DOMAIN c.result.differences
          /\ c.result.differences["opacity"].a = Undefined
          /\ c.result.differenceCount >= 3

\* The results of find_similar posted so far.
Found == {posted[k].result : k \in {k \in DOMAIN posted : "result" \in DOMAIN posted[k]}}

\* The projection of the target of the find_similar call.
TargetProjection == SimplifyNode(scene.children[1], FALSE)

\* Of the keys of either projection, leaving `excluded` out: how many there
\* are, and how many serialize equally on both sides.
CountedKeys(a, b, excluded) == (DOMAIN a \cup DOMAIN b) \ excluded

EqualKeys(a, b, excluded) ==
    {key \in CountedKeys(a, b, excluded) :
        /\ (key \in DOMAIN a) = (key \in DOMAIN b)
        /\ key \in DOMAIN a => StringifyValue(key, a[key]) = StringifyValue(key, b[key])}

\* equal / counted, rounded to hundredths (0 if nothing is counted)
ScoreOver(a, b, excluded) ==
    LET counted == Cardinality(CountedKeys(a, b, excluded))
        equal   == Cardinality(EqualKeys(a, b, excluded))
    IN IF counted = 0 THEN 0 ELSE (200 * equal + counted) \div (2 * counted)

\* C18 as stated: the similarity reported for a candidate is (keys with equal
\* serialized values) / (keys of the union of both projections), with id,
\* name, type and childCount left out of both counts.
C18_ScoreExcludesIdentityAndChildCount ==
    \A r \in Found :
        \A i \in DOMAIN r.similar :
            r.similar[i].similarity
                = ScoreOver(TargetProjection, r.similar[i].node,
                            {"id", "name", "type", "childCount"})

\* C18, amended: the keys left out of both counts are id, name and children;
\* type and childCount are counted like any other key.
C18_ScoreSkipsIdNameChildren ==
    \A r \in Found :
        \A i \in DOMAIN r.similar :
            r.similar[i].similarity
                = ScoreOver(TargetProjection, r.similar[i].node,
                            {"id", "name", "children"})

\* A candidate that differs from the target was scored: frames that share
\* type and childCount with the target and differ in the layout keys.
C18_Witness ==
    \E r \in Found :
        \E i \in DOMAIN r.similar :
            /\ r.similar[i].node.type = "FRAME"
            /\ "childCount" \in DOMAIN r.similar[i].node
            /\ "layoutMode" \notin DOMAIN r.similar[i].node
            /\ r.similar[i].similarity > 0
            /\ r.similar[i].similarity < 100

\* The nodes of the page in document order, and the positions of those that
\* have the target's type and are not the target.
PageNodes == Descendants(scene)

Eligible == {j \in DOMAIN PageNodes : /\ PageNodes[j].type = scene.children[1].type
                                      /\ PageNodes[j].id # scene.children[1].id}

\* The threshold of the find_similar call in hundredths; 0.7 if it gives none.
AskedThreshold ==
    IF "threshold" \in DOMAIN inbox[1].params THEN inbox[1].params.threshold ELSE 70

\* C19: find_similar returns only nodes of the target's type other than the
\* target whose score is at least the threshold (0.7 by default), in
\* descending order of score, the 20 best at most, no node twice; total is
\* the number of nodes that met the threshold, capped or not.  (The score
\* leaves id, name and children out of the count.)
C19_FindSimilarFiltersSortsCaps ==
    \A r \in Found :
        LET out     == {"id", "name", "children"}
            target  == TargetProjection
            nodes   == PageNodes
            proj    == [j \in Eligible |-> SimplifyNode(nodes[j], FALSE)]
            meeting == {j \in Eligible :
                          Cardinality(EqualKeys(target, proj[j], out)) * 100
                             >= AskedThreshold * Cardinality(CountedKeys(target, proj[j], out))}
            ids     == {r.similar[i].node.id : i \in DOMAIN r.similar}
            missed  == {j \in meeting : nodes[j].id \notin ids}
        IN
        /\ r.total = Cardinality(meeting)
        /\ Len(r.similar) = IF Cardinality(meeting) < 20 THEN Cardinality(meeting) ELSE 20
        /\ ids \subseteq {nodes[j].id : j \in meeting}
        /\ Cardinality(ids) = Len(r.similar)
        /\ \A i \in DOMAIN r.similar :
              i > 1 => r.similar[i - 1].similarity >= r.similar[i].similarity
        /\ \A j \in missed :
              r.similar[Len(r.similar)].similarity >= ScoreOver(target, proj[j], out)

\* More than 20 nodes met the threshold: 20 are returned, the better group
\* first although it comes later in the document, and total counts them all.
C19_Witness ==
    \E r \in Found :
        /\ r.total > 20
        /\ Len(r.similar) = 20
        /\ r.similar[1].node.name = "Other"
        /\ r.similar[20].node.name = "Copy"
        /\ r.similar[1].similarity > r.similar[20].similarity
        /\ PageNodes[2].name = "Copy"

\* C20: with threshold 1.0 every node find_similar returns has the target's
\* attributes apart from id, name and type: no key is missing, none is
\* extra, and every key serializes to the same text.
C20_ThresholdOneReturnsIdenticalOnly ==
    \A r \in Found :
        ("threshold" \in DOMAIN inbox[1].params /\ inbox[1].params.threshold = 100)
        => \A i \in DOMAIN r.similar :
              \A key \in (DOMAIN TargetProjection \cup DOMAIN r.similar[i].node)
                           \ {"id", "name", "type"} :
                  /\ key \in DOMAIN TargetProjection
                  /\ key \in DOMAIN r.similar[i].node
                  /\ StringifyValue(key, TargetProjection[key])
                        = StringifyValue(key, r.similar[i].node[key])

\* With threshold 1.0 the copies of the target were returned and the nodes of
\* its type that differ from it (hidden, or spaced differently) were not.
C20_Witness ==
    \E r \in Found :
        /\ "threshold" \in DOMAIN inbox[1].params
        /\ inbox[1].params.threshold = 100
        /\ r.total >= 1
        /\ r.total < Cardinality(Eligible)
        /\ \A i \in DOMAIN r.similar : r.similar[i].similarity = 100

\* ---------------------------------------------------------------------- C21
\* A name the linter is to flag: the whole name is a category keyword (in
\* any letter case), then one or more whitespace characters, then one or
\* more digits.
IsGenericName(name) ==
    \E p \in DOMAIN GenericPatterns :
        LET k == Len(GenericPatterns[p]) IN
        \E m \in (k + 1)..(Len(name) - 1) :
            /\ ToLowerCase(SubSeq(name, 1, k)) = ToLowerCase(GenericPatterns[p])
            /\ \A i \in (k + 1)..m : name[i] \in WhiteSpace
            /\ \A i \in (m + 1)..Len(name) : name[i] \in Digits

\* C21: every result of lint holds exactly one issue for each node of the
\* page whose name is generic and none for any other node, however many
\* there are; issueCount is the number of issues, totalNodes the number of
\* nodes scanned, and issueCount never exceeds totalNodes.
C21_LintFlagsExactlyGenericNames ==
    \A k \in DOMAIN posted :
        "result" \in DOMAIN posted[k] =>
            LET r       == posted[k].result
                scanned == Descendants(scene)
            IN /\ r.totalNodes = Len(scanned)
               /\ r.issueCount = Len(r.issues)
               /\ r.issueCount <= r.totalNodes
               /\ \A i \in DOMAIN r.issues :
                     \E j \in DOMAIN scanned : scanned[j].id = r.issues[i].nodeId
               /\ \A j \in DOMAIN scanned :
                     Cardinality({i \in DOMAIN r.issues :
                                     r.issues[i].nodeId = scanned[j].id})
                        = IF IsGenericName(scanned[j].name) THEN 1 ELSE 0

\* A result with more issues than the cap of the similarity search, on a page
\* where the group is flagged and some node is not.
C21_Witness ==
    \E k \in DOMAIN posted :
        /\ "result" \in DOMAIN posted[k]
        /\ posted[k].result.issueCount > MaxSimilar
        /\ posted[k].result.issueCount < posted[k].result.totalNodes
        /\ \E i \in DOMAIN posted[k].result.issues :
              posted[k].result.issues[i].nodeId = "1:1"

\* ---------------------------------------------------------------------- C22
\* The node the inference is asked about.
Button == scene.children[1]

\* The from and to of a transition, as a pair of texts.
Endpoints(transition) == <<transition.fields.from.str, transition.fields.to.str>>

\* A variant group whose two children are named State=Default and
\* State=Hover, without reactions and without a stored annotation.
DefaultHoverGroup ==
    /\ Button.type = "COMPONENT_SET"
    /\ Len(Button.children) = 2
    /\ Button.children[1].name = <<"S", "t", "a", "t", "e", "=", "D", "e", "f", "a", "u", "l", "t">>
    /\ Button.children[2].name = <<"S", "t", "a", "t", "e", "=", "H", "o", "v", "e", "r">>
    /\ ~Has(Button, "reactions")
    /\ GetSharedPluginData(Button) = <<>>

\* C22: for such a group infer_states returns the states Default, Hover in
\* this order, the two transitions Default -> Hover and Hover -> Default and
\* no other, and confidence 0.4.
C22_DefaultHoverGroupInferred ==
    \A k \in DOMAIN posted :
        (DefaultHoverGroup /\ "result" \in DOMAIN posted[k]) =>
            LET r == posted[k].result IN
            /\ r.states = <<JStr(DefaultText), JStr(HoverText)>>
            /\ Len(r.transitions) = 2
            /\ Endpoints(r.transitions[1]) = <<DefaultText, HoverText>>
            /\ Endpoints(r.transitions[2]) = <<HoverText, DefaultText>>
            /\ r.confidence = 4

C22_Witness ==
    /\ DefaultHoverGroup
    /\ \E k \in DOMAIN posted : "result" \in DOMAIN posted[k]
    /\ \E i \in DOMAIN toolResult : toolResult[i].state = "done"

\* ---------------------------------------------------------------------- C23
\* The stored annotation is there and is JSON.
AnnotationParses(node) ==
    LET text == GetSharedPluginData(node)
        r    == ParseValue(text, 1)
    IN text # <<>> /\ r.ok /\ r.next = Len(text) + 1

\* The weights, in tenths, of the sources that had something to go by: the
\* names of a variant group, at least one reaction, a stored annotation that
\* can be parsed.
ContributedWeight(node) ==
    (IF node.type = "COMPONENT_SET" THEN 4 ELSE 0)
    + (IF Has(node, "reactions") /\ node.reactions # <<>> THEN 3 ELSE 0)
    + (IF AnnotationParses(node) THEN 3 ELSE 0)

\* C23: the confidence of every result of infer_states is 0 when the result
\* has no states and otherwise the sum of the weights of the sources that
\* contributed; it lies between 0 and 1.
C23_ConfidenceIsWeightOfContributors ==
    \A k \in DOMAIN posted :
        "result" \in DOMAIN posted[k] =>
            LET r == posted[k].result IN
            /\ r.confidence = IF r.states = <<>> THEN 0 ELSE ContributedWeight(Button)
            /\ r.confidence >= 0
            /\ r.confidence <= 10

\* ---------------------------------------------------------------------- C24
\* The text is JSON from its first token to its last.
IsJson(text) ==
    LET r == ParseValue(text, 1) IN r.ok /\ r.next = Len(text) + 1

\* What the node with the given id holds as its annotation.
StoredOn(doc, nodeId) == GetSharedPluginData(GetNodeById(doc, nodeId)[1])

\* C24: when the sandbox runs annotate_state for a node of the document with
\* a payload that is not JSON, it posts an error response with the code
\* INVALID_ANNOTATION and the document, stored annotations included, is
\* after the call what it was before.
C24_InvalidPayloadWritesNothing ==
    [][ (/\ served' = served + 1
         /\ inbox[served + 1].method = "annotateState"
         /\ GetNodeById(scene, inbox[served + 1].params.nodeId) # <<>>
         /\ ~IsJson(inbox[served + 1].params.annotation))
        => /\ scene' = scene
           /\ Len(posted') = Len(posted) + 1
           /\ SubSeq(posted', 1, Len(posted)) = posted
           /\ posted'[Len(posted')].id = inbox[served + 1].id
           /\ "error" \in DOMAIN posted'[Len(posted')]
           /\ posted'[Len(posted')].error.code = "INVALID_ANNOTATION" ]_vars

\* A first write went through, a second one to the same node with a payload
\* that is not JSON was refused, and the node holds what the first wrote.
C24_Witness ==
    /\ served >= 2
    /\ inbox[1].method = "annotateState" /\ IsJson(inbox[1].params.annotation)
    /\ inbox[2].method = "annotateState" /\ ~IsJson(inbox[2].params.annotation)
    /\ inbox[2].params.nodeId = inbox[1].params.nodeId
    /\ "error" \in DOMAIN posted[2]
    /\ posted[2].error.code = "INVALID_ANNOTATION"
    /\ StoredOn(scene, inbox[1].params.nodeId) = inbox[1].params.annotation
    /\ StoredOn(scene, inbox[1].params.nodeId) # OldRulesTokens

\* ---------------------------------------------------------------------- C25
\* Command i is a write to the node that went through.
IsWrite(i, nodeId) ==
    /\ inbox[i].method = "annotateState"
    /\ inbox[i].params.nodeId = nodeId
    /\ IsJson(inbox[i].params.annotation)

\* Command i is the last write to the node of command j before j.
LastWriteBefore(i, j) ==
    /\ i < j
    /\ IsWrite(i, inbox[j].params.nodeId)
    /\ \A h \in (i + 1)..(j - 1) : ~IsWrite(h, inbox[j].params.nodeId)

\* The annotation a write carries.
AnnotationOf(i) == ParseValue(inbox[i].params.annotation, 1).value

\* The list an annotation has under a key, empty when it has none.
ListOf(a, key) ==
    IF a.kind = "object" /\ key \in DOMAIN a.fields /\ a.fields[key].kind = "array"
    THEN a.fields[key].items ELSE <<>>

\* The commands run so far are answered in their order: posted[j] answers
\* inbox[j].  A read after a write shows what the write carried.
ReadsShowLastWrite ==
    \A j \in 1..served : \A i \in 1..served :
        LastWriteBefore(i, j) =>
            LET a == AnnotationOf(i)
                r == posted[j].result
            IN /\ inbox[j].method = "getAnnotations" =>
                    /\ "result" \in DOMAIN posted[j]
                    /\ r.annotations = a
               /\ inbox[j].method = "inferStates" =>
                    /\ "result" \in DOMAIN posted[j]
                    /\ \E h \in DOMAIN r.sources : r.sources[h] = "annotations"
                    /\ \A s \in DOMAIN ListOf(a, "states") :
                          \E h \in DOMAIN r.states : r.states[h] = ListOf(a, "states")[s]
                    /\ \A t \in DOMAIN ListOf(a, "transitions") :
                          \E h \in DOMAIN r.transitions :
                              r.transitions[h] = ListOf(a, "transitions")[t]

\* A step changes what a node holds only by running a write to that node.
OnlyTheTargetWritten ==
    \A m \in {"1:1", "1:2"} :
        StoredOn(scene', m) # StoredOn(scene, m) =>
            /\ served' = served + 1
            /\ IsWrite(served + 1, m)

\* C25: after a write annotate_state(n, a) that went through and until the
\* next one on n, get_annotations(n) returns a, infer_states(n) lists the
\* annotation source and has every state and every transition of a among
\* its states and transitions; a write changes the annotation of no other
\* node.
C25_ReadsReturnWhatWasWritten ==
    []ReadsShowLastWrite /\ [][OnlyTheTargetWritten]_vars

\* ---------------------------------------------------------------------- C26
\* C26: the close event of a connection that is no longer the plugin leaves
\* unsettled every request that was sent over the connection that replaced
\* it, as long as that one is live.
C26_CloseRejectsOwnRequestsOnly ==
    [][ \A c \in Conns :
          (/\ event'.type = "close"
           /\ readyState[c] # "CLOSED"
           /\ readyState'[c] = "CLOSED"
           /\ plugin # 0
           /\ plugin # c
           /\ readyState[plugin] = "OPEN")
          => \A p \in DOMAIN wire :
                (wire[p].conn = plugin /\ outcome[p] = Unsettled)
                    => outcome'[p] = Unsettled ]_vars

\* ---------------------------------------------------------------------- C27
\* The projection of a node by itself, and the projections of its children
\* by themselves (no such key for a node that cannot have children).
OwnProjection(node) == SimplifyNode(node, FALSE)

KidProjections(node) ==
    IF Has(node, "children")
    THEN "children" :> [i \in DOMAIN node.children |-> SimplifyNode(node.children[i], FALSE)]
    ELSE None

\* C27 as claimed: the difference map of compare never has a `children`
\* key, and it has a key only where the two nodes' own attributes and child
\* counts differ.
C27_CompareIgnoresChildren ==
    \A k \in DOMAIN posted :
        "result" \in DOMAIN posted[k] =>
            LET A == GetNodeById(scene, inbox[k].params.nodeIdA)[1]
                B == GetNodeById(scene, inbox[k].params.nodeIdB)[1]
                d == posted[k].result.differences
            IN /\ "children" \notin DOMAIN d
               /\ \A key \in DOMAIN d :
                     Stringify(OwnProjection(A), key) # Stringify(OwnProjection(B), key)

\* C27 as the code has it: compare projects both nodes with their child
\* counts and with the projections of their direct children, those taken
\* without children of their own.  The map has a key of the nodes' own
\* projections exactly where these differ, it has `children` exactly where
\* the lists of direct-child projections differ, and nothing below the
\* direct children shows in it but their number.
C27_CompareSeesDirectChildrenOnly ==
    \A k \in DOMAIN posted :
        "result" \in DOMAIN posted[k] =>
            LET A == GetNodeById(scene, inbox[k].params.nodeIdA)[1]
                B == GetNodeById(scene, inbox[k].params.nodeIdB)[1]
                d == posted[k].result.differences
            IN /\ DOMAIN d \subseteq DOMAIN OwnProjection(A) \cup DOMAIN OwnProjection(B)
                                     \cup {"children"}
               /\ \A key \in DOMAIN OwnProjection(A) \cup DOMAIN OwnProjection(B) :
                     key \in DOMAIN d
                        <=> Stringify(OwnProjection(A), key) # Stringify(OwnProjection(B), key)
               /\ "children" \in DOMAIN d
                     <=> Stringify(KidProjections(A), "children")
                            # Stringify(KidProjections(B), "children")
               /\ "children" \in DOMAIN d =>
                     /\ Has(A, "children") =>
                           \A i \in DOMAIN d.children.a : "children" \notin DOMAIN d.children.a[i]
                     /\ Has(B, "children") =>
                           \A i \in DOMAIN d.children.b : "children" \notin DOMAIN d.children.b[i]

\* Two frames were compared whose children differ, one of the children
\* having a child of its own.
C27_Witness ==
    \E k \in DOMAIN posted :
        /\ "result" \in DOMAIN posted[k]
        /\ inbox[k].params.nodeIdA # inbox[k].params.nodeIdB
        /\ "children" \in DOMAIN posted[k].result.differences
        /\ Has(GetNodeById(scene, inbox[k].params.nodeIdA)[1], "children")
        /\ \E i \in DOMAIN posted[k].result.differences.children.a :
              /\ "childCount" \in DOMAIN posted[k].result.differences.children.a[i]
              /\ posted[k].result.differences.children.a[i].childCount > 0

\* ---------------------------------------------------------------------- C28
\* Nothing but the variant names is there to infer from.
NamesOnly ==
    /\ ~Has(Button, "reactions")
    /\ GetSharedPluginData(Button) = <<>>

\* C28: when infer_states has only the variant names to go by, both
\* endpoints of every transition it returns are among the states it returns.
C28_NamedTransitionsJoinObservedStates ==
    \A k \in DOMAIN posted :
        (NamesOnly /\ "result" \in DOMAIN posted[k]) =>
            LET r == posted[k].result IN
            \A t \in DOMAIN r.transitions :
                /\ \E h \in DOMAIN r.states : r.states[h].str = Endpoints(r.transitions[t])[1]
                /\ \E h \in DOMAIN r.states : r.states[h].str = Endpoints(r.transitions[t])[2]

\* ---------------------------------------------------------------------- C29
\* C29: when what is stored for the node cannot be parsed, infer_states
\* returns a result in which the annotation source is not listed, no
\* annotation weight is in the confidence, and the question that recommends
\* an explicit annotation is asked.
C29_UnparsableAnnotationIsAbsent ==
    \A k \in DOMAIN posted :
        (GetSharedPluginData(Button) # <<>> /\ ~AnnotationParses(Button)) =>
            /\ "result" \in DOMAIN posted[k]
            /\ LET r == posted[k].result IN
               /\ \A h \in DOMAIN r.sources : r.sources[h] # "annotations"
               /\ r.confidence = IF r.states = <<>> THEN 0
                                 ELSE (IF Button.type = "COMPONENT_SET" THEN 4 ELSE 0)
                                      + (IF Has(Button, "reactions") /\ Button.reactions # <<>>
                                         THEN 3 ELSE 0)
               /\ \E h \in DOMAIN r.openQuestions : r.openQuestions[h] = NoAnnotationsQuestion

\* ---------------------------------------------------------------------- C30
\* A projection with nothing beyond id, name and type.
IsBare(projection) == DOMAIN projection = {"id", "name", "type"}

\* C30 as claimed: when the target is bare and the threshold is above 0, no
\* bare candidate is reported.
C30_BareNodesNeverSimilar ==
    \A r \in Found :
        (IsBare(TargetProjection) /\ AskedThreshold > 0) =>
            \A i \in DOMAIN r.similar : ~IsBare(r.similar[i].node)

\* C30 as the code has it: the type is among the keys counted, so the union
\* is never empty and nothing is divided by zero; a bare candidate of a bare
\* target agrees with it in the one key counted, is given the score 1 and is
\* reported for every threshold.
C30_BareNodesFullySimilar ==
    \A r \in Found :
        IsBare(TargetProjection) =>
            /\ \A j \in DOMAIN PageNodes :
                  (/\ PageNodes[j].id # scene.children[1].id
                   /\ PageNodes[j].type = scene.children[1].type
                   /\ IsBare(SimplifyNode(PageNodes[j], FALSE)))
                  => \E i \in DOMAIN r.similar :
                        /\ r.similar[i].node.id = PageNodes[j].id
                        /\ r.similar[i].similarity = 100
            /\ \A i \in DOMAIN r.similar :
                  IsBare(r.similar[i].node) => r.similar[i].similarity = 100

\* A bare candidate of a bare target was reported under the threshold 1.
C30_Witness ==
    \E r \in Found :
        /\ IsBare(TargetProjection)
        /\ AskedThreshold = 100
        /\ \E i \in DOMAIN r.similar :
              IsBare(r.similar[i].node) /\ r.similar[i].similarity = 100

====
